---- MODULE Spec2Model ----
(***************************************************************************)
(* Model of asksage-proxy:                                                 *)
(*   src/src/asksage_proxy/api_key_manager.py  (class ApiKeyManager)       *)
(*   src/src/asksage_proxy/config.py           (ApiKeyConfig, the load)    *)
(*   src/src/asksage_proxy/client.py           (class AskSageClient)       *)
(*   src/src/asksage_proxy/app.py              (run_app, the middlewares)  *)
(* The request handler and the translation functions are modelled from     *)
(* the design document.                                                    *)
(*                                                                         *)
(* Weights are exact integers; a random draw r is represented by the       *)
(* integer DrawDen * r, so that the model has draws strictly inside a      *)
(* weight range as well as draws exactly on a range boundary.              *)
(* Weight 0 stands for the credentials with a non-positive weight, which   *)
(* ApiKeyManager accepts (it never re-validates a weight).                 *)
(***************************************************************************)
EXTENDS Integers, Sequences, FiniteSets, TLC

\* ------------------------------------------------------------------ bounds
MaxKeys == 3
MaxWeight == 3
DrawDen == 2
MaxM == 2
MaxCalls == 2

Weights == 0..MaxWeight
Threads == {"t1", "t2"}

\* ------------------------------------------------------------ credentials
\* An ApiKeyConfig object: its name and its weight.
ApiKeyConfig(name, weight) == [name |-> name, weight |-> weight]

\* The value of a selection that returned no credential (an exception).
NoKey == [name |-> 0, weight |-> 0]

\* The credential lists a caller can pass: 0..MaxKeys credentials, named by
\* their position in the list.
KeyLists ==
    UNION { { [i \in 1..n |-> ApiKeyConfig(i, ws[i])] : ws \in [1..n -> Weights] }
            : n \in 0..MaxKeys }

NonEmptyKeyLists == { ks \in KeyLists : Len(ks) > 0 }

\* ------------------------------------------------------- pure computations
\* sum(key.weight for key in self.api_keys)
RECURSIVE SumFrom(_, _)
SumFrom(keys, i) ==
    IF i > Len(keys) THEN 0 ELSE keys[i].weight + SumFrom(keys, i + 1)

SumWeights(keys) == SumFrom(keys, 1)

\* The same loop with "self._weight_groups[key.weight] = [key]" for the append.
RECURSIVE GroupKeys_Overwrite(_, _, _)
GroupKeys_Overwrite(keys, i, st) ==
    IF i > Len(keys) THEN st
    ELSE LET w  == keys[i].weight
             g  == IF w \in DOMAIN st.groups
                   THEN st.groups ELSE st.groups @@ (w :> <<>>)
             g2 == [g EXCEPT ![w] = <<keys[i]>>]
             x2 == IF w \in DOMAIN st.indices
                   THEN st.indices ELSE st.indices @@ (w :> 0)
         IN  GroupKeys_Overwrite(keys, i + 1, [groups |-> g2, indices |-> x2])

\* The loop "for key in self.api_keys:" that fills _weight_groups (a
\* defaultdict(list)) and _weight_group_indices, from position i on.
RECURSIVE GroupKeys(_, _, _)
GroupKeys(keys, i, st) ==
    IF i > Len(keys) THEN st
    ELSE LET w  == keys[i].weight
             g  == IF w \in DOMAIN st.groups
                   THEN st.groups ELSE st.groups @@ (w :> <<>>)
             g2 == [g EXCEPT ![w] = Append(@, keys[i])]
             x2 == IF w \in DOMAIN st.indices
                   THEN st.indices ELSE st.indices @@ (w :> 0)
         IN  GroupKeys(keys, i + 1, [groups |-> g2, indices |-> x2])

EmptyDict == [w \in {} |-> 0]

\* _weight_groups.clear() and _weight_group_indices.clear() in update_keys.
ClearedGroups(groups) == EmptyDict
ClearedIndices_Keep(indices) == indices
ClearedIndices(indices) == EmptyDict

\* "if not new_keys:" / "if not api_keys:"
IsEmptyKeys_Never(keys) == FALSE
IsEmptyKeys(keys) == keys = <<>>

\* "if self._total_weight <= 0:"
NoValidWeights_Strict(tw) == tw < 0
NoValidWeights_Always(tw) == TRUE
NoValidWeights(tw) == tw <= 0

\* (index + 1) % len(list)
NextIndex_Stuck(index, n) == index
NextIndex_NoWrap(index, n) == index + 1
NextIndex_OffByOne(index, n) == (index + 1) % (n + 1)
NextIndex_Twice(index, n) == (index + 2) % n
NextIndex(index, n) == (index + 1) % n

\* random.uniform(0, self._total_weight): the end points included.
Draws(tw) == 0..(DrawDen * tw)

\* sorted(self._weight_groups.keys(), reverse=True)
RECURSIVE SortDesc(_)
SortDesc(S) ==
    IF S = {} THEN <<>>
    ELSE LET m == CHOOSE x \in S : \A y \in S : y <= x
         IN  <<m>> \o SortDesc(S \ {m})

RECURSIVE SortAsc(_)
SortAsc(S) ==
    IF S = {} THEN <<>>
    ELSE LET m == CHOOSE x \in S : \A y \in S : x <= y
         IN  <<m>> \o SortAsc(S \ {m})

SortedWeights_Ascending(groups) == SortAsc(DOMAIN groups)
SortedWeights(groups) == SortDesc(DOMAIN groups)

\* max(self._weight_groups.keys())
MaxWeightKey(groups) == CHOOSE x \in DOMAIN groups : \A y \in DOMAIN groups : y <= x

\* The same loop with "group_total_weight = weight" (the size of the group
\* forgotten).
RECURSIVE WalkGroups_UnitMass(_, _, _, _, _)
WalkGroups_UnitMass(sorted, i, groups, random_weight, current_weight) ==
    IF i > Len(sorted) THEN [found |-> FALSE, weight |-> 0]
    ELSE LET weight == sorted[i]
             group_total_weight == weight
         IN  IF random_weight <= DrawDen * (current_weight + group_total_weight)
             THEN [found |-> TRUE, weight |-> weight]
             ELSE WalkGroups_UnitMass(sorted, i + 1, groups, random_weight,
                                      current_weight + group_total_weight)

\* The loop "for weight in sorted_weights:" of the weighted round robin.
RECURSIVE WalkGroups(_, _, _, _, _)
WalkGroups(sorted, i, groups, random_weight, current_weight) ==
    IF i > Len(sorted) THEN [found |-> FALSE, weight |-> 0]
    ELSE LET weight == sorted[i]
             group_total_weight == weight * Len(groups[weight])
         IN  IF random_weight <= DrawDen * (current_weight + group_total_weight)
             THEN [found |-> TRUE, weight |-> weight]
             ELSE WalkGroups(sorted, i + 1, groups, random_weight,
                             current_weight + group_total_weight)

\* selected_weight after the walk and the "is None" fallback.
SelectedWeight(groups, random_weight) ==
    LET r == WalkGroups(SortedWeights(groups), 1, groups, random_weight, 0)
    IN  IF r.found THEN r.weight ELSE MaxWeightKey(groups)

\* list[index] of Python (0-based).
KeyAt_First(list, index) == list[1]
KeyAt(list, index) == list[index + 1]

\* The loop "for api_key in self.api_keys:" of the weighted random
\* selection: the position of the key it returns, 0 when it returns none.
RECURSIVE WalkKeys(_, _, _, _)
WalkKeys(keys, i, random_weight, current_weight) ==
    IF i > Len(keys) THEN 0
    ELSE LET cw == current_weight + keys[i].weight
         IN  IF random_weight <= DrawDen * cw THEN i
             ELSE WalkKeys(keys, i + 1, random_weight, cw)

\* The key the weighted random selection returns when nothing changes the
\* pool meanwhile: the loop's, else "return self.api_keys[-1]".
WeightedKey(keys, random_weight) ==
    LET i == WalkKeys(keys, 1, random_weight, 0)
    IN  IF i > 0 THEN keys[i] ELSE keys[Len(keys)]

\* The last n entries of a log.
LastN(s, n) == IF Len(s) <= n THEN s ELSE SubSeq(s, Len(s) - n + 1, Len(s))

\* ------------------------------------------------------------------ state
VARIABLES
    api_keys,               \* self.api_keys
    current_index,          \* self._current_index (0-based)
    total_weight,           \* self._total_weight
    weight_groups,          \* self._weight_groups: weight -> list of keys
    weight_group_indices,   \* self._weight_group_indices: weight -> index
    lock,                   \* self._lock: "free" or the thread holding it
    last,                   \* the last completed call: operation, draw, result
    cursorLog,              \* keys returned through the global cursor since the
                            \* last update_keys (the last MaxM * size of them)
    tierLog,                \* per weight group, the keys returned from it since
                            \* the last update_keys (the last MaxM * size)
    pc,                     \* per thread: its position in the call it runs
    loc,                    \* per thread: the local variables of that call
    calls,                  \* the number of calls the threads have started
    advanced                \* since the last update_keys: the number of
                            \* selections that threads completed through the
                            \* global cursor and through each weight group

poolVars == <<api_keys, current_index, total_weight, weight_groups,
              weight_group_indices>>
seqVars  == <<last, cursorLog, tierLog>>
thrVars  == <<pc, loc, calls, advanced>>
vars     == <<api_keys, current_index, total_weight, weight_groups,
              weight_group_indices, lock, last, cursorLog, tierLog,
              pc, loc, calls, advanced>>

Call(op, arg, draw, key, tier, err) ==
    [op |-> op, arg |-> arg, draw |-> draw, key |-> key, tier |-> tier, err |-> err]

NoLocals == [op |-> "none", tw |-> 0, draw |-> 0, keys |-> <<>>, index |-> 0,
             tier |-> 0, key |-> NoKey, n |-> 0, fallback |-> FALSE, err |-> FALSE]

NoneAdvanced(groups) == [cursor |-> 0, tiers |-> [w \in DOMAIN groups |-> 0]]

\* ApiKeyManager.__init__ on a non-empty list of ApiKeyConfig objects.
InitPool(keys) ==
    LET st == GroupKeys(keys, 1, [groups |-> EmptyDict, indices |-> EmptyDict])
    IN  /\ api_keys = keys
        /\ current_index = 0
        /\ lock = "free"
        /\ total_weight = SumWeights(keys)
        /\ weight_groups = st.groups
        /\ weight_group_indices = st.indices
        /\ last = Call("init", keys, 0, NoKey, 0, FALSE)
        /\ cursorLog = <<>>
        /\ tierLog = [w \in DOMAIN st.groups |-> <<>>]
        /\ pc = [t \in Threads |-> "idle"]
        /\ loc = [t \in Threads |-> NoLocals]
        /\ calls = 0
        /\ advanced = NoneAdvanced(st.groups)

Init == \E keys \in NonEmptyKeyLists : InitPool(keys)

\* ------------------------------------------ the calls, one thread at a time
\* What a run records of its calls is either each call with its draw (rec =
\* "calls") or the keys returned in rotation (rec = "rotation").
NotedDraw(random_weight, rec) == IF rec = "calls" THEN random_weight ELSE 0

NotedKey(log, key, n, rec) ==
    IF rec = "rotation" THEN LastN(Append(log, key), MaxM * n) ELSE log

\* The body of get_next_key_round_robin (also the inlined fallback of the
\* weighted round robin): the key at the cursor, and the cursor advanced.
CursorStep(op, rec) ==
    IF api_keys = <<>>
    THEN /\ last' = Call(op, <<>>, 0, NoKey, 0, TRUE)
         /\ UNCHANGED <<current_index, cursorLog>>
    ELSE LET api_key == KeyAt(api_keys, current_index)
         IN  /\ current_index' = NextIndex(current_index, Len(api_keys))
             /\ last' = Call(op, <<>>, 0, api_key, 0, FALSE)
             /\ cursorLog' = NotedKey(cursorLog, api_key, Len(api_keys), rec)

\* get_next_key_round_robin()
GetNextKeyRoundRobin(rec) ==
    /\ CursorStep("round_robin", rec)
    /\ UNCHANGED <<api_keys, total_weight, weight_groups, weight_group_indices,
                   lock, tierLog, thrVars>>

\* get_next_key_weighted()
GetNextKeyWeighted(rec) ==
    /\ IF NoValidWeights(total_weight)
       THEN CursorStep("weighted", rec)
       ELSE /\ \E random_weight \in Draws(total_weight) :
                   last' = Call("weighted", <<>>, NotedDraw(random_weight, rec),
                                WeightedKey(api_keys, random_weight), 0, FALSE)
            /\ UNCHANGED <<current_index, cursorLog>>
    /\ UNCHANGED <<api_keys, total_weight, weight_groups, weight_group_indices,
                   lock, tierLog, thrVars>>

\* The body of _get_next_key_weighted_round_robin(): what it does to the pool.
WeightedRoundRobinStep(rec) ==
    /\ IF NoValidWeights(total_weight)
       THEN /\ CursorStep("weighted_round_robin", rec)
            /\ UNCHANGED <<weight_group_indices, tierLog>>
       ELSE /\ \E random_weight \in Draws(total_weight) :
                   LET selected_weight == SelectedWeight(weight_groups, random_weight)
                       weight_group  == weight_groups[selected_weight]
                       index         == weight_group_indices[selected_weight]
                       selected_key  == KeyAt(weight_group, index)
                   IN  /\ weight_group_indices' =
                              [weight_group_indices EXCEPT ![selected_weight] =
                                   NextIndex(index, Len(weight_group))]
                       /\ last' = Call("weighted_round_robin", <<>>,
                                       NotedDraw(random_weight, rec),
                                       selected_key, selected_weight, FALSE)
                       /\ tierLog' = [tierLog EXCEPT ![selected_weight] =
                              NotedKey(@, selected_key, Len(weight_group), rec)]
            /\ UNCHANGED <<current_index, cursorLog>>
    /\ UNCHANGED <<api_keys, total_weight, weight_groups, lock>>

\* _get_next_key_weighted_round_robin()
GetNextKeyWeightedRoundRobin(rec) ==
    /\ WeightedRoundRobinStep(rec)
    /\ UNCHANGED thrVars

\* get_next_key(strategy)
GetNextKey(strategy, rec) ==
    IF strategy = "round_robin" THEN GetNextKeyRoundRobin(rec)
    ELSE IF strategy = "weighted" THEN GetNextKeyWeighted(rec)
    ELSE GetNextKeyWeightedRoundRobin(rec)

\* update_keys(new_keys)
UpdateKeys(new_keys) ==
    /\ IF IsEmptyKeys(new_keys)
       THEN /\ last' = Call("update_keys", new_keys, 0, NoKey, 0, TRUE)
            /\ UNCHANGED <<poolVars, cursorLog, tierLog, advanced>>
       ELSE LET st == GroupKeys(new_keys, 1,
                          [groups  |-> ClearedGroups(weight_groups),
                           indices |-> ClearedIndices(weight_group_indices)])
            IN  /\ api_keys' = new_keys
                /\ current_index' = 0
                /\ total_weight' = SumWeights(new_keys)
                /\ weight_groups' = st.groups
                /\ weight_group_indices' = st.indices
                /\ last' = Call("update_keys", new_keys, 0, NoKey, 0, FALSE)
                /\ cursorLog' = <<>>
                /\ tierLog' = [w \in DOMAIN st.groups |-> <<>>]
                /\ advanced' = NoneAdvanced(st.groups)
    /\ UNCHANGED <<lock, pc, loc, calls>>

\* The runs that record each call and its draw.
Next ==
    \/ GetNextKeyRoundRobin("calls")
    \/ GetNextKeyWeighted("calls")
    \/ GetNextKeyWeightedRoundRobin("calls")
    \/ \E new_keys \in KeyLists : UpdateKeys(new_keys)

Spec == Init /\ [][Next]_vars

\* The runs that record the keys returned in rotation.
NextRot ==
    \/ GetNextKeyRoundRobin("rotation")
    \/ GetNextKeyWeighted("rotation")
    \/ GetNextKeyWeightedRoundRobin("rotation")
    \/ \E new_keys \in KeyLists : UpdateKeys(new_keys)

SpecRot == Init /\ [][NextRot]_vars

\* ------------------------------------------- the calls, threads interleaved
\* A step is one access to the attributes of the pool; accesses that no
\* other thread can tell apart are one step.  The credential lists of the
\* interleaved runs have at most MaxConcKeys credentials.
MaxConcKeys == 2

ConcKeyLists == { ks \in KeyLists : Len(ks) <= MaxConcKeys }

InitConc ==
    /\ Init
    /\ api_keys \in ConcKeyLists

\* "with self._lock:": entering waits until the lock is free; leaving frees it.
CanAcquire_Always(l) == TRUE
CanAcquire(l) == l = "free"

ReleasedLock_Kept(holder) == holder
ReleasedLock(holder) == "free"

Locals(op) == [NoLocals EXCEPT !.op = op]

\* A thread starts a call.
Begin(t) ==
    /\ pc[t] = "idle"
    /\ calls < MaxCalls
    /\ calls' = calls + 1

Goto(t, label) == pc' = [pc EXCEPT ![t] = label]

\* Python's d[k] = v.
DictSet(d, k, v) == IF k \in DOMAIN d THEN [d EXCEPT ![k] = v] ELSE d @@ (k :> v)

DictGet(d, k, default) == IF k \in DOMAIN d THEN d[k] ELSE default

\* get_next_key_round_robin(): the call, up to "with self._lock:".
RRStart(t) ==
    /\ Begin(t)
    /\ Goto(t, "rr_acquire")
    /\ loc' = [loc EXCEPT ![t] = Locals("round_robin")]
    /\ UNCHANGED <<poolVars, lock, seqVars, advanced>>

\* "with self._lock:" of the three methods that take the lock.
Acquire(t) ==
    /\ pc[t] \in {"rr_acquire", "wrr_acquire", "upd_acquire"}
    /\ CanAcquire(lock)
    /\ lock' = t
    /\ Goto(t, CASE pc[t] = "rr_acquire"  -> "rr_read"
                 [] pc[t] = "wrr_acquire" -> "wrr_read"
                 [] pc[t] = "upd_acquire" -> "upd_keys")
    /\ UNCHANGED <<poolVars, seqVars, loc, calls, advanced>>

\* The reads under the lock of a selection through the global cursor:
\* api_key = self.api_keys[self._current_index], and the value of
\* (self._current_index + 1) % len(self.api_keys).
CursorRead(t, next) ==
    IF current_index < Len(api_keys)
    THEN /\ loc' = [loc EXCEPT ![t].key = KeyAt(api_keys, current_index),
                               ![t].index = NextIndex(current_index, Len(api_keys)),
                               ![t].fallback = TRUE]
         /\ Goto(t, next)
         /\ UNCHANGED lock
    ELSE /\ loc' = [loc EXCEPT ![t].err = TRUE]
         /\ Goto(t, "done")
         /\ lock' = ReleasedLock(lock)

RRRead(t) ==
    /\ pc[t] = "rr_read"
    /\ CursorRead(t, "rr_write")
    /\ UNCHANGED <<poolVars, seqVars, calls, advanced>>

\* The store of self._current_index, the end of the "with" block, the return.
CursorWrite(t) ==
    /\ current_index' = loc[t].index
    /\ cursorLog' = LastN(Append(cursorLog, loc[t].key), MaxM * Len(api_keys))
    /\ advanced' = [advanced EXCEPT !.cursor = @ + 1]
    /\ lock' = ReleasedLock(lock)
    /\ Goto(t, "idle")
    /\ loc' = [loc EXCEPT ![t] = NoLocals]

RRWrite(t) ==
    /\ pc[t] = "rr_write"
    /\ CursorWrite(t)
    /\ UNCHANGED <<api_keys, total_weight, weight_groups, weight_group_indices,
                   last, tierLog, calls>>

\* get_next_key_weighted(): the test of self._total_weight, outside the lock.
WStart(t) ==
    /\ Begin(t)
    /\ IF NoValidWeights(total_weight)
       THEN /\ Goto(t, "rr_acquire")
            /\ loc' = [loc EXCEPT ![t] = Locals("weighted")]
       ELSE /\ Goto(t, "w_walk")
            /\ loc' = [loc EXCEPT ![t] = [Locals("weighted") EXCEPT !.tw = total_weight]]
    /\ UNCHANGED <<poolVars, lock, seqVars, advanced>>

\* The draw out of the total read before, and the loop over self.api_keys as
\* it is now.
WWalk(t) ==
    /\ pc[t] = "w_walk"
    /\ \E random_weight \in Draws(loc[t].tw) :
           LET i == WalkKeys(api_keys, 1, random_weight, 0)
           IN  /\ loc' = [loc EXCEPT ![t].draw = random_weight,
                                     ![t].keys = api_keys,
                                     ![t].key = IF i > 0 THEN api_keys[i] ELSE NoKey]
               /\ Goto(t, IF i > 0 THEN "done" ELSE "w_last")
    /\ UNCHANGED <<poolVars, lock, seqVars, calls, advanced>>

\* "return self.api_keys[-1]": the list as it is now.
WLast(t) ==
    /\ pc[t] = "w_last"
    /\ loc' = [loc EXCEPT ![t].key = api_keys[Len(api_keys)]]
    /\ Goto(t, "done")
    /\ UNCHANGED <<poolVars, lock, seqVars, calls, advanced>>

\* _get_next_key_weighted_round_robin(): the call, up to "with self._lock:".
WRRStart(t) ==
    /\ Begin(t)
    /\ Goto(t, "wrr_acquire")
    /\ loc' = [loc EXCEPT ![t] = Locals("weighted_round_robin")]
    /\ UNCHANGED <<poolVars, lock, seqVars, advanced>>

\* Under the lock: the fallback's reads, or the draw, the walk over the
\* weight groups and the reads of the selected group and of its index.
WRRRead(t) ==
    /\ pc[t] = "wrr_read"
    /\ IF NoValidWeights(total_weight)
       THEN CursorRead(t, "wrr_write")
       ELSE /\ \E random_weight \in Draws(total_weight) :
                   LET selected_weight == SelectedWeight(weight_groups, random_weight)
                       weight_group == weight_groups[selected_weight]
                       index == DictGet(weight_group_indices, selected_weight, Len(weight_group))
                   IN  IF index < Len(weight_group)
                       THEN /\ loc' = [loc EXCEPT ![t].draw = random_weight,
                                        ![t].tier = selected_weight,
                                        ![t].key = KeyAt(weight_group, index),
                                        ![t].index = NextIndex(index, Len(weight_group))]
                            /\ Goto(t, "wrr_write")
                            /\ UNCHANGED lock
                       ELSE /\ loc' = [loc EXCEPT ![t].err = TRUE]
                            /\ Goto(t, "done")
                            /\ lock' = ReleasedLock(lock)
    /\ UNCHANGED <<poolVars, seqVars, calls, advanced>>

\* The store of the index (the global one in the fallback, else the group's),
\* the end of the "with" block, the return.
WRRWrite(t) ==
    /\ pc[t] = "wrr_write"
    /\ IF loc[t].fallback
       THEN /\ CursorWrite(t)
            /\ UNCHANGED <<weight_group_indices, tierLog>>
       ELSE LET w == loc[t].tier
            IN  /\ weight_group_indices' = DictSet(weight_group_indices, w, loc[t].index)
                /\ tierLog' = DictSet(tierLog, w,
                       LastN(Append(DictGet(tierLog, w, <<>>), loc[t].key),
                             MaxM * Len(DictGet(weight_groups, w, <<>>))))
                /\ advanced' = [advanced EXCEPT !.tiers =
                       DictSet(@, w, DictGet(@, w, 0) + 1)]
                /\ lock' = ReleasedLock(lock)
                /\ Goto(t, "idle")
                /\ loc' = [loc EXCEPT ![t] = NoLocals]
                /\ UNCHANGED <<current_index, cursorLog>>
    /\ UNCHANGED <<api_keys, total_weight, weight_groups, last, calls>>

\* update_keys(new_keys): the test of new_keys, up to "with self._lock:".
UStart(t, new_keys) ==
    /\ Begin(t)
    /\ IF IsEmptyKeys(new_keys)
       THEN /\ Goto(t, "done")
            /\ loc' = [loc EXCEPT ![t] = [Locals("update_keys") EXCEPT !.err = TRUE]]
       ELSE /\ Goto(t, "upd_acquire")
            /\ loc' = [loc EXCEPT ![t] = [Locals("update_keys") EXCEPT !.keys = new_keys]]
    /\ UNCHANGED <<poolVars, lock, seqVars, advanced>>

\* self.api_keys = new_keys.copy()
UKeys(t) ==
    /\ pc[t] = "upd_keys"
    /\ api_keys' = loc[t].keys
    /\ Goto(t, "upd_rest")
    /\ UNCHANGED <<current_index, total_weight, weight_groups, weight_group_indices,
                   lock, seqVars, loc, calls, advanced>>

\* The rest of the "with" block: the cursor, the total, the weight groups
\* and their indices; the end of the block; the return.
URest(t) ==
    /\ pc[t] = "upd_rest"
    /\ LET st == GroupKeys(api_keys, 1,
                     [groups  |-> ClearedGroups(weight_groups),
                      indices |-> ClearedIndices(weight_group_indices)])
       IN  /\ current_index' = 0
           /\ total_weight' = SumWeights(api_keys)
           /\ weight_groups' = st.groups
           /\ weight_group_indices' = st.indices
           /\ cursorLog' = <<>>
           /\ tierLog' = [w \in DOMAIN st.groups |-> <<>>]
           /\ advanced' = NoneAdvanced(st.groups)
    /\ lock' = ReleasedLock(lock)
    /\ Goto(t, "idle")
    /\ loc' = [loc EXCEPT ![t] = NoLocals]
    /\ UNCHANGED <<api_keys, last, calls>>

\* get_stats(): "total_keys": len(self.api_keys)
SStart(t) ==
    /\ Begin(t)
    /\ Goto(t, "s_total")
    /\ loc' = [loc EXCEPT ![t] = [Locals("stats") EXCEPT !.n = Len(api_keys)]]
    /\ UNCHANGED <<poolVars, lock, seqVars, advanced>>

\* "total_weight": self._total_weight
STotal(t) ==
    /\ pc[t] = "s_total"
    /\ loc' = [loc EXCEPT ![t].tw = total_weight]
    /\ Goto(t, "s_index")
    /\ UNCHANGED <<poolVars, lock, seqVars, calls, advanced>>

\* "current_index": self._current_index
SIndex(t) ==
    /\ pc[t] = "s_index"
    /\ loc' = [loc EXCEPT ![t].index = current_index]
    /\ Goto(t, "s_keys")
    /\ UNCHANGED <<poolVars, lock, seqVars, calls, advanced>>

\* "keys": [... for i, key in enumerate(self.api_keys)]
SKeys(t) ==
    /\ pc[t] = "s_keys"
    /\ loc' = [loc EXCEPT ![t].keys = api_keys]
    /\ Goto(t, "done")
    /\ UNCHANGED <<poolVars, lock, seqVars, calls, advanced>>

\* get_all_keys(): self.api_keys.copy()
AllKeys(t) ==
    /\ Begin(t)
    /\ loc' = [loc EXCEPT ![t] = [Locals("all") EXCEPT !.keys = api_keys]]
    /\ Goto(t, "done")
    /\ UNCHANGED <<poolVars, lock, seqVars, advanced>>

\* The caller has the result of a call that ended outside the lock.
Return(t) ==
    /\ pc[t] = "done"
    /\ Goto(t, "idle")
    /\ loc' = [loc EXCEPT ![t] = NoLocals]
    /\ UNCHANGED <<poolVars, lock, seqVars, calls, advanced>>

\* A thread goes on with the call it is in.
Proceed(t) ==
    \/ Acquire(t)
    \/ RRRead(t)
    \/ RRWrite(t)
    \/ WWalk(t)
    \/ WLast(t)
    \/ WRRRead(t)
    \/ WRRWrite(t)
    \/ UKeys(t)
    \/ URest(t)
    \/ STotal(t)
    \/ SIndex(t)
    \/ SKeys(t)
    \/ Return(t)

NextConc ==
    \E t \in Threads :
        \/ RRStart(t)
        \/ WStart(t)
        \/ WRRStart(t)
        \/ \E new_keys \in ConcKeyLists : UStart(t, new_keys)
        \/ SStart(t)
        \/ AllKeys(t)
        \/ Proceed(t)

SpecConc == InitConc /\ [][NextConc]_vars

\* The scheduler lets every thread that can go on with its call do so.
SpecConcFair == SpecConc /\ \A t \in Threads : WF_vars(Proceed(t))

\* ------------------------------------- the callers and the objects they hold
\* A credential is an object that the pool, its weight groups and the lists
\* of the callers share by reference.  Every object of these runs has a name
\* of its own (those of the constructed pool are 1..n, a new one gets the
\* next), and loc[t].keys and loc[t].key are the list and the credential that
\* the caller t holds.  The caller steps counted in calls are at most MaxCalls.
Strategies == {"round_robin", "weighted", "weighted_round_robin", "unknown"}

\* One caller holds objects of the pool; the pool is constructed over at most
\* MaxConcKeys credentials.
Callers == {"t1"}

Held(t, keys) == [loc EXCEPT ![t].keys = keys]

CallerStep ==
    /\ calls < MaxCalls
    /\ calls' = calls + 1

\* get_all_keys(): self.api_keys.copy(), a new list of the same objects.
GetAllKeys(t) ==
    /\ loc' = [loc EXCEPT ![t].keys = api_keys, ![t].op = "all"]
    /\ last' = Call("get_all_keys", <<>>, 0, NoKey, 0, FALSE)
    /\ UNCHANGED <<poolVars, lock, cursorLog, tierLog, pc, calls, advanced>>

\* "if self.weight <= 0: raise ValueError" of ApiKeyConfig.__post_init__.
WeightRejected(weight) == weight <= 0

\* ApiKeyConfig(key, weight, name) with a non-empty key: the dataclass
\* constructor and __post_init__.
NewApiKeyConfig(t, weight) ==
    /\ CallerStep
    /\ LET args == ApiKeyConfig(MaxKeys + calls + 1, weight)
       IN  IF WeightRejected(weight)
           THEN /\ last' = Call("ApiKeyConfig", args, 0, NoKey, 0, TRUE)
                /\ UNCHANGED loc
           ELSE /\ last' = Call("ApiKeyConfig", args, 0, args, 0, FALSE)
                /\ loc' = [loc EXCEPT ![t].key = args, ![t].op = "new"]
    /\ UNCHANGED <<poolVars, lock, cursorLog, tierLog, pc, advanced>>

\* The caller's list.append(credential), list.pop(i) and list.reverse() on
\* the list it holds.
CallerAppend(t) ==
    /\ CallerStep
    /\ loc[t].key # NoKey
    /\ Len(loc[t].keys) < MaxKeys
    /\ \A i \in DOMAIN loc[t].keys : loc[t].keys[i].name # loc[t].key.name
    /\ loc' = Held(t, Append(loc[t].keys, loc[t].key))
    /\ last' = Call("caller_append", <<>>, 0, NoKey, 0, FALSE)
    /\ UNCHANGED <<poolVars, lock, cursorLog, tierLog, pc, advanced>>

CallerPop(t, i) ==
    /\ CallerStep
    /\ i \in DOMAIN loc[t].keys
    /\ loc' = Held(t, SubSeq(loc[t].keys, 1, i - 1)
                      \o SubSeq(loc[t].keys, i + 1, Len(loc[t].keys)))
    /\ last' = Call("caller_pop", <<>>, 0, NoKey, 0, FALSE)
    /\ UNCHANGED <<poolVars, lock, cursorLog, tierLog, pc, advanced>>

CallerReverse(t) ==
    /\ CallerStep
    /\ Len(loc[t].keys) >= 2
    /\ loc' = Held(t, [i \in DOMAIN loc[t].keys |->
                           loc[t].keys[Len(loc[t].keys) + 1 - i]])
    /\ last' = Call("caller_reverse", <<>>, 0, NoKey, 0, FALSE)
    /\ UNCHANGED <<poolVars, lock, cursorLog, tierLog, pc, advanced>>

\* A list after the object of that name got the weight w.
Patched(list, name, w) ==
    [i \in DOMAIN list |->
        IF list[i].name = name THEN [list[i] EXCEPT !.weight = w] ELSE list[i]]

\* The caller's "credential.weight = w" on the i-th credential of the list it
\* holds (ApiKeyConfig is a dataclass that is not frozen): the object changes
\* wherever it is referenced.
CallerSetWeight(t, i, w) ==
    /\ CallerStep
    /\ i \in DOMAIN loc[t].keys
    /\ loc[t].keys[i].weight # w
    /\ LET name == loc[t].keys[i].name
       IN  /\ api_keys' = Patched(api_keys, name, w)
           /\ weight_groups' = [x \in DOMAIN weight_groups |->
                                    Patched(weight_groups[x], name, w)]
           /\ loc' = [u \in Threads |->
                         [loc[u] EXCEPT !.keys = Patched(@, name, w),
                                        !.key = IF @.name = name
                                                THEN [@ EXCEPT !.weight = w] ELSE @]]
    /\ last' = Call("caller_set_weight", <<>>, 0, NoKey, 0, FALSE)
    /\ UNCHANGED <<current_index, total_weight, weight_group_indices, lock,
                   cursorLog, tierLog, pc, advanced>>

NextCaller ==
    \/ \E strategy \in Strategies : GetNextKey(strategy, "caller")
    \/ \E t \in Callers :
           \/ GetAllKeys(t)
           \/ \E weight \in Weights : NewApiKeyConfig(t, weight)
           \/ CallerAppend(t)
           \/ \E i \in 1..MaxKeys : CallerPop(t, i)
           \/ CallerReverse(t)
           \/ \E i \in 1..MaxKeys : \E w \in Weights : CallerSetWeight(t, i, w)
           \/ UpdateKeys(loc[t].keys)

SpecCaller == InitConc /\ [][NextCaller]_vars

\* ------------------------------------------------- the secrets and get_stats
\* The secret of a credential (ApiKeyConfig.key) is a string, here the
\* sequence of its characters: up to MaxSecretLen letters, then up to three
\* dots, not empty (__post_init__ rejects an empty key).
MaxSecretLen == 9
MaxStatKeys == 2
PreviewLen == 8

Repeat(c, n) == [i \in 1..n |-> c]

Secrets ==
    { Repeat("a", n) \o Repeat(".", d) : n \in 0..MaxSecretLen, d \in 0..3 }
        \ { <<>> }

\* An ApiKeyConfig object with its secret.
ApiKeyConfigWithKey(name, weight, key) ==
    [name |-> name, weight |-> weight, key |-> key]

\* Lists of 1..MaxStatKeys credentials of the default weight 1.0, named by
\* their position.
SecretKeyLists ==
    UNION { { [i \in 1..n |-> ApiKeyConfigWithKey(i, 1, ks[i])] : ks \in [1..n -> Secrets] }
            : n \in 1..MaxStatKeys }

InitStats == \E keys \in SecretKeyLists : InitPool(keys)

\* key.key[:8] + "..." if len(key.key) > 8 else key.key
KeyPreview(key) ==
    IF Len(key) > PreviewLen
    THEN SubSeq(key, 1, PreviewLen) \o <<".", ".", ".">>
    ELSE key

\* The dictionary that get_stats returns.
Stats ==
    [total_keys    |-> Len(api_keys),
     total_weight  |-> total_weight,
     current_index |-> current_index,
     keys          |-> [i \in DOMAIN api_keys |->
                           [name        |-> api_keys[i].name,
                            weight      |-> api_keys[i].weight,
                            key_preview |-> KeyPreview(api_keys[i].key)]]]

\* get_stats()
GetStats ==
    /\ last' = [result |-> Stats] @@ Call("get_stats", <<>>, 0, NoKey, 0, FALSE)
    /\ UNCHANGED <<poolVars, lock, cursorLog, tierLog, thrVars>>

NextStats ==
    \/ GetStats
    \/ \E strategy \in Strategies : GetNextKey(strategy, "stats")

SpecStats == InitStats /\ [][NextStats]_vars

\* ------------------------------------------------------------ the requests
\* Each task handles one request at a time, at most MaxCalls requests in all;
\* pc[t] is the state of the request of task t and loc[t] what the request
\* has done so far.  The tasks share the pool and nothing else; the pool is
\* constructed over at most MaxConcKeys credentials.
Terminal == {"Sent", "Errored"}

Middle == {"Translating", "CredentialSelected", "BackendCalled", "Translated"}

NewRequest(stream) ==
    [op |-> "request", stream |-> stream, key |-> NoKey, selections |-> 0,
     backend_calls |-> 0, called_with |-> <<>>, error |-> "none",
     raised |-> "none", emitted |-> <<>>]

\* error_middleware: "except web.HTTPException: raise", and any other
\* exception becomes the JSON response of status 500.
Converted_None(exc) == FALSE
Converted_All(exc) == TRUE
Converted(exc) == exc # "HTTPException"

InternalError ==
    [kind |-> "envelope", status |-> 500, type |-> "internal_error",
     code |-> "internal_error", message |-> "Internal server error"]

\* The error response that the handler builds itself and raises as an HTTP
\* exception: the envelope with the status of the kind of error.
ErrorStatus(error) == IF error = "InvalidRequest" THEN 400 ELSE 502

HandlerError(error) ==
    [kind |-> "envelope", status |-> ErrorStatus(error), type |-> error,
     code |-> error, message |-> error]

\* What the caller gets when the handler raised exc for the error.
ErrorResponse(error, exc) ==
    IF Converted(exc) THEN <<InternalError>>
    ELSE IF exc = "HTTPException" THEN <<HandlerError(error)>>
    ELSE <<>>

\* The request ends in Errored: the handler raises, the middleware answers.
Fail(t, error, exc) ==
    /\ pc' = [pc EXCEPT ![t] = "Errored"]
    /\ loc' = [loc EXCEPT ![t].error = error, ![t].raised = exc,
                          ![t].emitted = @ \o ErrorResponse(error, exc)]

Exceptions == {"HTTPException", "Exception"}

ReqReceive(t, stream) ==
    /\ pc[t] \in {"idle"} \cup Terminal
    /\ calls < MaxCalls
    /\ calls' = calls + 1
    /\ pc' = [pc EXCEPT ![t] = "Received"]
    /\ loc' = [loc EXCEPT ![t] = NewRequest(stream)]
    /\ UNCHANGED <<poolVars, lock, seqVars, advanced>>

\* Received -> Translating: the inbound JSON is parsed and translated.
ReqParse(t) ==
    /\ pc[t] = "Received"
    /\ pc' = [pc EXCEPT ![t] = "Translating"]
    /\ UNCHANGED <<poolVars, lock, seqVars, loc, calls, advanced>>

\* Malformed JSON or a missing field: InvalidRequest.
ReqInvalid(t, exc) ==
    /\ pc[t] = "Translating"
    /\ Fail(t, "InvalidRequest", exc)
    /\ UNCHANGED <<poolVars, lock, seqVars, calls, advanced>>

\* Translating -> CredentialSelected: the one selection of the request, by
\* the default strategy of get_next_key.
ReqSelect(t) ==
    /\ pc[t] = "Translating"
    /\ WeightedRoundRobinStep("request")
    /\ pc' = [pc EXCEPT ![t] = "CredentialSelected"]
    /\ loc' = [loc EXCEPT ![t].key = last'.key, ![t].selections = @ + 1]
    /\ UNCHANGED <<calls, advanced>>

\* CredentialSelected -> BackendCalled: the query is sent with the secret of
\* the selected credential, outside the lock of the pool.
ReqCallBackend(t) ==
    /\ pc[t] = "CredentialSelected"
    /\ lock # t
    /\ pc' = [pc EXCEPT ![t] = "BackendCalled"]
    /\ loc' = [loc EXCEPT ![t].backend_calls = @ + 1,
                          ![t].called_with = Append(@, loc[t].key)]
    /\ UNCHANGED <<poolVars, lock, seqVars, calls, advanced>>

\* The call fails (network, timeout), the backend answers with a status
\* other than 200, or its reply has a shape that cannot be normalized.
ReqBackendFailed(t, error, exc) ==
    /\ pc[t] = "BackendCalled"
    /\ Fail(t, error, exc)
    /\ UNCHANGED <<poolVars, lock, seqVars, calls, advanced>>

\* BackendCalled -> Translated: the reverse translation of a good reply.
ReqTranslateBack(t) ==
    /\ pc[t] = "BackendCalled"
    /\ pc' = [pc EXCEPT ![t] = "Translated"]
    /\ UNCHANGED <<poolVars, lock, seqVars, loc, calls, advanced>>

\* Translated -> Sent: the completion object, or the chunks, the terminal
\* chunk and the sentinel.
ReqSend(t) ==
    /\ pc[t] = "Translated"
    /\ pc' = [pc EXCEPT ![t] = "Sent"]
    /\ loc' = [loc EXCEPT ![t].emitted =
                  @ \o (IF loc[t].stream
                        THEN <<[kind |-> "chunk"], [kind |-> "final_chunk"],
                               [kind |-> "[DONE]"]>>
                        ELSE <<[kind |-> "completion"]>>)]
    /\ UNCHANGED <<poolVars, lock, seqVars, calls, advanced>>

BackendErrors == {"BackendUnavailable", "BackendRejected", "MalformedBackendResponse"}

NextReq ==
    \E t \in Threads :
        \/ \E stream \in BOOLEAN : ReqReceive(t, stream)
        \/ ReqParse(t)
        \/ \E exc \in Exceptions : ReqInvalid(t, exc)
        \/ ReqSelect(t)
        \/ ReqCallBackend(t)
        \/ \E error \in BackendErrors : \E exc \in Exceptions :
               ReqBackendFailed(t, error, exc)
        \/ ReqTranslateBack(t)
        \/ ReqSend(t)

SpecReq == InitConc /\ [][NextReq]_vars

\* Every task goes on with the request it handles.
SpecReqFair ==
    SpecReq /\ \A t \in Threads :
        WF_vars(ReqParse(t) \/ ReqSelect(t) \/ ReqCallBackend(t)
                \/ ReqTranslateBack(t) \/ ReqSend(t))

\* ------------------------------------------- the requests and the pool lock
\* The tasks of the requests interleaved at the steps of the lock: a task
\* selects under "with self._lock:", leaves the block, and then awaits the
\* backend; meanwhile another task selects or replaces the pool.
TaskReceive(t, stream) ==
    /\ Begin(t)
    /\ Goto(t, "Translating")
    /\ loc' = [loc EXCEPT ![t] = NewRequest(stream)]
    /\ UNCHANGED <<poolVars, lock, seqVars, advanced>>

\* get_next_key(): "with self._lock:" of _get_next_key_weighted_round_robin.
TaskAcquire(t) ==
    /\ pc[t] = "Translating"
    /\ CanAcquire(lock)
    /\ lock' = t
    /\ Goto(t, "Selecting")
    /\ UNCHANGED <<poolVars, seqVars, loc, calls, advanced>>

\* The body of the "with" block.
TaskSelect(t) ==
    /\ pc[t] = "Selecting"
    /\ WeightedRoundRobinStep("request")
    /\ Goto(t, "Selected")
    /\ loc' = [loc EXCEPT ![t].key = last'.key, ![t].selections = @ + 1]
    /\ UNCHANGED <<calls, advanced>>

\* The end of the "with" block and the return of the selected credential.
TaskRelease(t) ==
    /\ pc[t] = "Selected"
    /\ lock' = ReleasedLock(lock)
    /\ Goto(t, "CredentialSelected")
    /\ UNCHANGED <<poolVars, seqVars, loc, calls, advanced>>

\* AskSageClient.query: "async with self._session.post(...)": the call is
\* in flight until the backend answers.
TaskCallBackend(t) ==
    /\ pc[t] = "CredentialSelected"
    /\ Goto(t, "BackendCalled")
    /\ loc' = [loc EXCEPT ![t].backend_calls = @ + 1,
                          ![t].called_with = Append(@, loc[t].key)]
    /\ UNCHANGED <<poolVars, lock, seqVars, calls, advanced>>

\* The backend answers, or the timeout of the session expires: the request
\* is finished.
TaskBackendReply(t) ==
    /\ pc[t] = "BackendCalled"
    /\ Goto(t, "idle")
    /\ loc' = [loc EXCEPT ![t] = NoLocals]
    /\ UNCHANGED <<poolVars, lock, seqVars, calls, advanced>>

\* The steps of a task on the pool.
PoolStep(t) ==
    \/ TaskAcquire(t)
    \/ TaskSelect(t)
    \/ TaskRelease(t)
    \/ Acquire(t)
    \/ UKeys(t)
    \/ URest(t)
    \/ Return(t)

NextTask ==
    \E t \in Threads :
        \/ \E stream \in BOOLEAN : TaskReceive(t, stream)
        \/ \E new_keys \in ConcKeyLists : UStart(t, new_keys)
        \/ PoolStep(t)
        \/ TaskCallBackend(t)
        \/ TaskBackendReply(t)

SpecTask == InitConc /\ [][NextTask]_vars

\* Every task goes on with its steps on the pool; nothing makes the backend
\* answer.
SpecTaskFair == SpecTask /\ \A t \in Threads : WF_vars(PoolStep(t))

\* ------------------------------------------------------ the backend client
\* A task selects a credential, constructs an AskSageClient over a
\* configuration object, enters it and calls query or get_models; the
\* backend answers with a status and a body.  The pools are lists of one or
\* two credentials with secrets of their own.
TestKeys == <<"test-key-1", "test-key-2">>

ClientKeyLists ==
    UNION { { [i \in 1..n |-> ApiKeyConfigWithKey(i, ws[i], TestKeys[i])] :
                  ws \in [1..n -> 1..2] } : n \in 1..Len(TestKeys) }

InitClient == \E keys \in ClientKeyLists : InitPool(keys)

\* The attributes of an AskSageConfig object constructed over the credential
\* list (the dataclass has no attribute api_key).
AskSageConfig(keys) ==
    [host |-> "0.0.0.0", port |-> 8080, verbose |-> TRUE, api_keys |-> keys,
     asksage_server_base_url |-> "https://api.asksage.anl.gov/server",
     asksage_user_base_url |-> "https://api.asksage.anl.gov/user",
     cert_path |-> "None", timeout_seconds |-> 30]

\* The configuration object a client is constructed over: the dataclass as
\* it is (given = "none"), or one that has been given an attribute api_key.
GivenKeys == {"none"} \cup { TestKeys[i] : i \in DOMAIN TestKeys }

ConfigWith(keys, given) ==
    IF given = "none" THEN AskSageConfig(keys)
    ELSE [api_key |-> given] @@ AskSageConfig(keys)

HasAttr(obj, attr) == attr \in DOMAIN obj

NewClient(key) ==
    [op |-> "client", key |-> key, config |-> <<>>, session |-> FALSE,
     closed |-> FALSE, method |-> "none", sent |-> <<>>, status |-> "none", body |-> "none",
     raised |-> "none", message |-> <<>>, result |-> "none"]

Methods == {"query", "get-models"}

\* HTTP statuses, as they are written into the messages.
BackendStatuses == {"200", "401", "500"}

Bodies == {"body-1", "body-2"}

\* The request handler selects the credential of the request.
ClientSelect(t) ==
    /\ Begin(t)
    /\ WeightedRoundRobinStep("request")
    /\ Goto(t, "CredentialSelected")
    /\ loc' = [loc EXCEPT ![t] = NewClient(last'.key)]
    /\ UNCHANGED advanced

\* AskSageClient.__init__(config)
ClientInit(t, given) ==
    /\ pc[t] = "CredentialSelected"
    /\ Goto(t, "Constructed")
    /\ loc' = [loc EXCEPT ![t].config = ConfigWith(api_keys, given),
                          ![t].session = FALSE]
    /\ UNCHANGED <<poolVars, lock, seqVars, calls, advanced>>

\* AskSageClient.__aenter__
ClientEnter(t) ==
    /\ pc[t] = "Constructed"
    /\ Goto(t, "Entered")
    /\ loc' = [loc EXCEPT ![t].session = TRUE]
    /\ UNCHANGED <<poolVars, lock, seqVars, calls, advanced>>

\* A call raises before it has an answer.
Raise(t, exc, message) ==
    /\ Goto(t, "Raised")
    /\ loc' = [loc EXCEPT ![t].raised = exc, ![t].message = message,
                          ![t].status = "none", ![t].body = "none",
                          ![t].result = "none"]

\* The f-strings of the two RuntimeErrors.
FailureMessage(method, status) ==
    IF method = "query" THEN <<"Query failed: ", status>>
    ELSE <<"Failed to get models: ", status>>

\* query(payload) and get_models(), up to the request sent: the test of
\* self._session, the headers, session.post (which, in aiohttp, raises
\* RuntimeError("Session is closed") on a session that was closed).
ClientCall(t, method) ==
    /\ pc[t] \in {"Constructed", "Entered", "Exited"}
    /\ IF ~loc[t].session
       THEN Raise(t, "RuntimeError", <<"Session not initialized">>)
       ELSE IF ~HasAttr(loc[t].config, "api_key")
       THEN Raise(t, "AttributeError", <<"api_key">>)
       ELSE IF loc[t].closed
       THEN Raise(t, "RuntimeError", <<"Session is closed">>)
       ELSE /\ Goto(t, "InFlight")
            /\ loc' = [loc EXCEPT ![t].method = method,
                          ![t].sent = Append(@, [url |-> method,
                              x_access_tokens |-> loc[t].config.api_key])]
    /\ UNCHANGED <<poolVars, lock, seqVars, calls, advanced>>

\* The response of the backend: "if response.status != 200: raise
\* RuntimeError(...)", else the JSON body is returned.
ClientReply(t, status, body) ==
    /\ pc[t] = "InFlight"
    /\ IF status # "200"
       THEN /\ Goto(t, "Raised")
            /\ loc' = [loc EXCEPT ![t].status = status, ![t].body = body,
                          ![t].raised = "RuntimeError",
                          ![t].message = FailureMessage(loc[t].method, status)]
       ELSE /\ Goto(t, "Returned")
            /\ loc' = [loc EXCEPT ![t].status = status, ![t].body = body,
                                  ![t].result = body]
    /\ UNCHANGED <<poolVars, lock, seqVars, calls, advanced>>

\* AskSageClient.__aexit__: "if self._session: await self._session.close()";
\* self._session stays the session, closed.
ClientExit(t) ==
    /\ pc[t] \in {"Entered", "Raised", "Returned"}
    /\ loc[t].session
    /\ ~loc[t].closed
    /\ Goto(t, "Exited")
    /\ loc' = [loc EXCEPT ![t].closed = TRUE]
    /\ UNCHANGED <<poolVars, lock, seqVars, calls, advanced>>

\* The request is over and its client is dropped.
ClientDrop(t) ==
    /\ pc[t] \in {"Raised", "Returned", "Exited"}
    /\ Goto(t, "idle")
    /\ loc' = [loc EXCEPT ![t] = NoLocals]
    /\ UNCHANGED <<poolVars, lock, seqVars, calls, advanced>>

NextClient ==
    \E t \in Threads :
        \/ ClientSelect(t)
        \/ \E given \in GivenKeys : ClientInit(t, given)
        \/ ClientEnter(t)
        \/ \E method \in Methods : ClientCall(t, method)
        \/ \E status \in BackendStatuses : \E body \in Bodies :
               ClientReply(t, status, body)
        \/ ClientExit(t)
        \/ ClientDrop(t)

SpecClient == InitClient /\ [][NextClient]_vars

\* ------------------------------------------------- the reverse translation
\* transform_asksage_to_openai and the emission of its result.  A text is the
\* sequence of its characters; a JSON value is tagged with its type, and the
\* fields of a JSON object are the fields of a record.
MaxTextLen == 2

Alphabet == {"a", "b"}

Texts == UNION { [1..n -> Alphabet] : n \in 0..MaxTextLen }

\* The values of the inner fields of a nested reply.
InnerTexts == {<<>>, <<"a">>, <<"b", "a">>}

JsonString(text) == [type |-> "string", value |-> text]

JsonObject(fields) == [type |-> "object", fields |-> fields]

JsonNull == [type |-> "null"]

\* The objects of a nested reply: response and message are each absent or a
\* text.
InnerObjects ==
    { [uuid |-> "12345-67890"] } \cup
    { [uuid |-> "12345-67890", response |-> r] : r \in InnerTexts } \cup
    { [uuid |-> "12345-67890", message |-> m] : m \in InnerTexts } \cup
    { [uuid |-> "12345-67890", response |-> r, message |-> m] :
          r \in InnerTexts, m \in InnerTexts }

\* The replies of the backend with status 200: flat, nested, with a response
\* that is neither, without a response.
BackendReplies ==
    { [status |-> 200, response |-> JsonString(x)] : x \in Texts } \cup
    { [status |-> 200, response |-> JsonObject(o)] : o \in InnerObjects } \cup
    { [status |-> 200, response |-> JsonNull], [status |-> 200] }

Answer(text) == [ok |-> TRUE, answer |-> text]

Malformed(reply) ==
    [ok |-> FALSE, error |-> "MalformedBackendResponse", payload |-> reply]

\* The answer text of a reply of the backend.
Normalize_MessageFirst(reply) ==
    IF "response" \notin DOMAIN reply THEN Malformed(reply)
    ELSE IF reply.response.type = "string" THEN Answer(reply.response.value)
    ELSE IF reply.response.type = "object"
    THEN LET inner == reply.response.fields
         IN  IF "message" \in DOMAIN inner THEN Answer(inner.message)
             ELSE IF "response" \in DOMAIN inner /\ inner.response # <<>>
             THEN Answer(inner.response)
             ELSE Malformed(reply)
    ELSE Malformed(reply)

Normalize_EmptyAnswer(reply) ==
    IF "response" \notin DOMAIN reply THEN Answer(<<>>)
    ELSE IF reply.response.type = "string" THEN Answer(reply.response.value)
    ELSE IF reply.response.type = "object"
    THEN LET inner == reply.response.fields
         IN  IF "response" \in DOMAIN inner /\ inner.response # <<>>
             THEN Answer(inner.response)
             ELSE IF "message" \in DOMAIN inner THEN Answer(inner.message)
             ELSE Answer(<<>>)
    ELSE Answer(<<>>)

Normalize(reply) ==
    IF "response" \notin DOMAIN reply THEN Malformed(reply)
    ELSE IF reply.response.type = "string" THEN Answer(reply.response.value)
    ELSE IF reply.response.type = "object"
    THEN LET inner == reply.response.fields
         IN  IF "response" \in DOMAIN inner /\ inner.response # <<>>
             THEN Answer(inner.response)
             ELSE IF "message" \in DOMAIN inner THEN Answer(inner.message)
             ELSE Malformed(reply)
    ELSE Malformed(reply)

\* The completion object of the non-streaming path.
Completion(id, answer) ==
    [object |-> "chat.completion", request |-> id,
     choices |-> <<[index |-> 0, finish_reason |-> "stop",
                    message |-> [role |-> "assistant", content |-> answer]]>>]

\* The items of a synthesized stream.
Chunk(id, text) ==
    [object |-> "chat.completion.chunk", request |-> id,
     delta |-> [content |-> text], finish_reason |-> "none"]

FinalChunk(id) ==
    [object |-> "chat.completion.chunk", request |-> id,
     delta |-> [content |-> <<>>], finish_reason |-> "stop"]

Done(id) == [object |-> "[DONE]", request |-> id]

NewTranslation(id, stream, reply) ==
    [op |-> "translate", id |-> id, stream |-> stream, reply |-> reply,
     answer |-> <<>>, rest |-> <<>>, error |-> "none", emitted |-> <<>>]

\* The first n characters of a text, and the text without them.
Take(text, n) == SubSeq(text, 1, n)

Drop_Nothing(text, n) == text
Drop(text, n) == SubSeq(text, n + 1, Len(text))

\* The backend has answered the query of a request with status 200.
TrBackendReply(t, stream, reply) ==
    /\ Begin(t)
    /\ Goto(t, "BackendCalled")
    /\ loc' = [loc EXCEPT ![t] = NewTranslation(<<t, calls + 1>>, stream, reply)]
    /\ UNCHANGED <<poolVars, lock, seqVars, advanced>>

\* BackendCalled -> Translated, or Errored with MalformedBackendResponse and
\* the one error envelope.
TrNormalize(t) ==
    /\ pc[t] = "BackendCalled"
    /\ LET n == Normalize(loc[t].reply)
       IN  IF n.ok
           THEN /\ Goto(t, "Translated")
                /\ loc' = [loc EXCEPT ![t].answer = n.answer, ![t].rest = n.answer]
           ELSE /\ Goto(t, "Errored")
                /\ loc' = [loc EXCEPT ![t].error = n.error,
                              ![t].emitted = <<HandlerError(n.error)>>]
    /\ UNCHANGED <<poolVars, lock, seqVars, calls, advanced>>

\* Translated -> Sent, not streaming: the one completion object.
TrSendCompletion(t) ==
    /\ pc[t] = "Translated"
    /\ ~loc[t].stream
    /\ Goto(t, "Sent")
    /\ loc' = [loc EXCEPT ![t].emitted = <<Completion(loc[t].id, loc[t].answer)>>]
    /\ UNCHANGED <<poolVars, lock, seqVars, calls, advanced>>

\* Streaming: the next n characters of the answer as one content delta (the
\* whole answer, or a segment of it; an empty answer is one empty delta).
TrSendChunk(t, n) ==
    /\ pc[t] \in {"Translated", "Streaming"}
    /\ loc[t].stream
    /\ n <= Len(loc[t].rest)
    /\ n = 0 => (pc[t] = "Translated" /\ loc[t].rest = <<>>)
    /\ Goto(t, "Streaming")
    /\ loc' = [loc EXCEPT ![t].emitted = Append(@, Chunk(loc[t].id, Take(loc[t].rest, n))),
                          ![t].rest = Drop(@, n)]
    /\ UNCHANGED <<poolVars, lock, seqVars, calls, advanced>>

\* The terminal chunk, after the last content delta.
TrSendFinal(t) ==
    /\ pc[t] = "Streaming"
    /\ loc[t].rest = <<>>
    /\ Goto(t, "Finishing")
    /\ loc' = [loc EXCEPT ![t].emitted = Append(@, FinalChunk(loc[t].id))]
    /\ UNCHANGED <<poolVars, lock, seqVars, calls, advanced>>

\* The sentinel: the stream is sent.
TrSendDone(t) ==
    /\ pc[t] = "Finishing"
    /\ Goto(t, "Sent")
    /\ loc' = [loc EXCEPT ![t].emitted = Append(@, Done(loc[t].id))]
    /\ UNCHANGED <<poolVars, lock, seqVars, calls, advanced>>

\* The structures of the request are discarded after the response is sent.
TrDiscard(t) ==
    /\ pc[t] \in Terminal
    /\ Goto(t, "idle")
    /\ loc' = [loc EXCEPT ![t] = NoLocals]
    /\ UNCHANGED <<poolVars, lock, seqVars, calls, advanced>>

NextTranslate ==
    \E t \in Threads :
        \/ \E stream \in BOOLEAN : \E reply \in BackendReplies :
               TrBackendReply(t, stream, reply)
        \/ TrNormalize(t)
        \/ TrSendCompletion(t)
        \/ \E n \in 0..MaxTextLen : TrSendChunk(t, n)
        \/ TrSendFinal(t)
        \/ TrSendDone(t)
        \/ TrDiscard(t)

InitTranslate == InitPool(<<ApiKeyConfigWithKey(1, 1, TestKeys[1])>>)

SpecTranslate == InitTranslate /\ [][NextTranslate]_vars

\* ------------------------------------------------------ the text extraction
\* extract_text_from_content: the content of a message is a string or a list
\* of at most MaxParts parts; a part is of type text, with its text, or of
\* another type.
MaxParts == 3

Newline == "\n"

TextPart(text) == [type |-> "text", text |-> text]

ImagePart == [type |-> "image", url |-> "https://example.com/image.jpg"]

Parts == { TextPart(<<>>), TextPart(<<"a">>), TextPart(<<"b">>), ImagePart }

JsonList(items) == [type |-> "list", items |-> items]

Contents ==
    { JsonString(x) : x \in Texts } \cup
    { JsonList(ps) : ps \in UNION { [1..n -> Parts] : n \in 0..MaxParts } }

\* The texts of the parts of type text, in the order of the list.
RECURSIVE TextsOfParts_All(_, _)
TextsOfParts_All(items, i) ==
    IF i > Len(items) THEN <<>>
    ELSE <<(IF items[i].type = "text" THEN items[i].text ELSE <<>>)>>
             \o TextsOfParts_All(items, i + 1)

RECURSIVE TextsOfParts(_, _)
TextsOfParts(items, i) ==
    IF i > Len(items) THEN <<>>
    ELSE (IF items[i].type = "text" THEN <<items[i].text>> ELSE <<>>)
             \o TextsOfParts(items, i + 1)

\* "\n".join(texts)
RECURSIVE Join(_, _)
Join(texts, i) ==
    IF i > Len(texts) THEN <<>>
    ELSE IF i = Len(texts) THEN texts[i]
    ELSE texts[i] \o <<Newline>> \o Join(texts, i + 1)

ExtractTextFromContent(content) ==
    IF content.type = "string" THEN content.value
    ELSE Join(TextsOfParts(content.items, 1), 1)

NewExtraction(content) ==
    [op |-> "extract", content |-> content, text |-> <<>>, again |-> <<>>]

\* A message of a request, with its content.
ExReceive(t, content) ==
    /\ Begin(t)
    /\ Goto(t, "Translating")
    /\ loc' = [loc EXCEPT ![t] = NewExtraction(content)]
    /\ UNCHANGED <<poolVars, lock, seqVars, advanced>>

\* extract_text_from_content(content)
ExExtract(t) ==
    /\ pc[t] = "Translating"
    /\ Goto(t, "Extracted")
    /\ loc' = [loc EXCEPT ![t].text = ExtractTextFromContent(loc[t].content)]
    /\ UNCHANGED <<poolVars, lock, seqVars, calls, advanced>>

\* extract_text_from_content of the extracted text, as a plain string.
ExExtractAgain(t) ==
    /\ pc[t] = "Extracted"
    /\ Goto(t, "ExtractedAgain")
    /\ loc' = [loc EXCEPT ![t].again = ExtractTextFromContent(JsonString(loc[t].text))]
    /\ UNCHANGED <<poolVars, lock, seqVars, calls, advanced>>

ExDiscard(t) ==
    /\ pc[t] = "ExtractedAgain"
    /\ Goto(t, "idle")
    /\ loc' = [loc EXCEPT ![t] = NoLocals]
    /\ UNCHANGED <<poolVars, lock, seqVars, calls, advanced>>

NextExtract ==
    \E t \in Threads :
        \/ \E content \in Contents : ExReceive(t, content)
        \/ ExExtract(t)
        \/ ExExtractAgain(t)
        \/ ExDiscard(t)

SpecExtract == InitTranslate /\ [][NextExtract]_vars

\* ------------------------------------------------- the configuration load
\* The api_keys list of a configuration file has at most MaxEntries entries,
\* each a bare secret string or an object with a key and, optionally, a
\* weight and a name.  A weight as the file gives it is a number, the float
\* NaN (".nan" in YAML, "NaN" in JSON) or a string; it is tagged with what it
\* is.  An entry that is neither (a number, a list) has the form "other".
MaxEntries == 2

Num(n) == [type |-> "number", value |-> n]

NaN == [type |-> "nan"]

Str == [type |-> "str"]

RawWeights == { Num(n) : n \in -1..2 } \cup {NaN, Str}

RawNames == {"", "a", "key_2"}

RawFields ==
    { [key |-> k] : k \in {"", TestKeys[1], TestKeys[2]} } \cup
    { [key |-> TestKeys[1], weight |-> w] : w \in RawWeights } \cup
    { [key |-> TestKeys[1], name |-> n] : n \in RawNames } \cup
    { [key |-> TestKeys[1], weight |-> w, name |-> n] :
          w \in RawWeights, n \in RawNames }

RawEntries ==
    { [form |-> "string", key |-> k] : k \in {"", TestKeys[1], TestKeys[2]} } \cup
    { [form |-> "object", fields |-> f] : f \in RawFields } \cup
    { [form |-> "other"] }

RawLists == UNION { [1..n -> RawEntries] : n \in 0..MaxEntries }

\* f"key_{i + 1}" of the entry at index i (the first entry has index 0).
AutoName_Index(i) == <<"key_0", "key_1", "key_2", "key_3">>[i + 1]
AutoName(i) == <<"key_1", "key_2", "key_3", "key_4">>[i + 1]

Raised(exc, message) == [ok |-> FALSE, exc |-> exc, message |-> message]

Made(value) == [ok |-> TRUE, value |-> value]

\* "self.weight <= 0" on a weight as the file gives it: the comparison of a
\* number, FALSE for NaN (a string raises TypeError before).
WeightLeZero(weight) == weight.type = "number" /\ WeightRejected(weight.value)

\* ApiKeyConfig(key, weight, name): the dataclass and __post_init__.
PostInit(config) ==
    IF config.key = "" THEN Raised("ValueError", "API key cannot be empty")
    ELSE IF config.weight.type = "str" THEN Raised("TypeError", "'<=' not supported")
    ELSE IF WeightLeZero(config.weight)
    THEN Raised("ValueError", "API key weight must be positive")
    ELSE Made(config)

\* from_dict: the ApiKeyConfig of the entry at index i (a dict, a str, or
\* the "else" branch for an entry of another type).
EntryConfig(entry, i) ==
    IF entry.form = "other"
    THEN Raised("ValueError", "Invalid API key configuration")
    ELSE IF entry.form = "string"
    THEN PostInit([key |-> entry.key, weight |-> Num(1), name |-> AutoName(i)])
    ELSE LET key_data == entry.fields
         IN  PostInit([key    |-> key_data.key,
                       weight |-> IF "weight" \in DOMAIN key_data
                                  THEN key_data.weight ELSE Num(1),
                       name   |-> IF "name" \notin DOMAIN key_data \/ key_data.name = ""
                                  THEN AutoName(i) ELSE key_data.name])

\* AskSageConfig.from_dict on the api_keys list: the loop over the entries.
RECURSIVE FromDict(_, _, _)
FromDict(api_keys_data, i, keys) ==
    IF i >= Len(api_keys_data) THEN Made([api_keys |-> keys])
    ELSE LET made == EntryConfig(api_keys_data[i + 1], i)
         IN  IF made.ok THEN FromDict(api_keys_data, i + 1, Append(keys, made.value))
             ELSE made

\* The names that the duplicate check of validate looks at:
\* [key.name for key in self.api_keys if key.name].
GivenNames(keys) ==
    LET named == SelectSeq(keys, LAMBDA key : key.name # "")
    IN  [i \in DOMAIN named |-> named[i].name]

\* len(names) != len(set(names))
HasDuplicates_Never(names) == FALSE
HasDuplicates(names) ==
    Len(names) # Cardinality({ names[i] : i \in DOMAIN names })

\* AskSageConfig.validate (the URLs and the timeout are the defaults).
Validate(config) ==
    IF IsEmptyKeys(config.api_keys)
    THEN Raised("ValueError", "At least one API key is required in api_keys")
    ELSE IF \E i \in DOMAIN config.api_keys : ~PostInit(config.api_keys[i]).ok
    THEN Raised("ValueError", "API key validation failed")
    ELSE IF HasDuplicates(GivenNames(config.api_keys))
    THEN Raised("ValueError", "Duplicate API key names found")
    ELSE Made(config)

\* ApiKeyManager.get_key_by_name: the first credential of that name, or None.
NoneFound == [name |-> "", weight |-> Num(0), key |-> ""]

RECURSIVE GetKeyByName(_, _, _)
GetKeyByName(keys, i, name) ==
    IF i > Len(keys) THEN NoneFound
    ELSE IF keys[i].name = name THEN keys[i]
    ELSE GetKeyByName(keys, i + 1, name)

\* The credentials with their weights as the numbers the pool computes with.
Numeric(keys) == \A i \in DOMAIN keys : keys[i].weight.type = "number"

PoolKeys(keys) ==
    [i \in DOMAIN keys |->
        ApiKeyConfigWithKey(keys[i].name, keys[i].weight.value, keys[i].key)]

\* The attributes of a new ApiKeyManager(api_keys), api_keys not empty.
NewManager(keys) ==
    LET st == GroupKeys(keys, 1, [groups |-> EmptyDict, indices |-> EmptyDict])
    IN  [api_keys |-> keys, current_index |-> 0, total_weight |-> SumWeights(keys),
         weight_groups |-> st.groups, weight_group_indices |-> st.indices]

NoManager == [api_keys |-> <<>>]

NewLoad(raw) ==
    [op |-> "load", raw |-> raw, loaded |-> FALSE, config |-> [api_keys |-> <<>>],
     validated |-> FALSE, built |-> FALSE, manager |-> NoManager,
     exc |-> "none", message |-> "none"]

\* load_config_from_file(config_path): from_dict on the parsed file; any
\* exception is logged and None is returned.
LoadConfigFromFile(t, raw) ==
    /\ Begin(t)
    /\ Goto(t, "Loaded")
    /\ LET made == FromDict(raw, 0, <<>>)
       IN  loc' = [loc EXCEPT ![t] =
                      IF made.ok
                      THEN [NewLoad(raw) EXCEPT !.loaded = TRUE, !.config = made.value]
                      ELSE [NewLoad(raw) EXCEPT !.exc = made.exc,
                                                !.message = made.message]]
    /\ UNCHANGED <<poolVars, lock, seqVars, advanced>>

\* config.validate() of load_config, on a configuration that was loaded.
ConfigValidate(t) ==
    /\ pc[t] = "Loaded"
    /\ loc[t].loaded
    /\ LET made == Validate(loc[t].config)
       IN  IF made.ok
           THEN /\ Goto(t, "Validated")
                /\ loc' = [loc EXCEPT ![t].validated = TRUE]
           ELSE /\ Goto(t, "Invalid")
                /\ loc' = [loc EXCEPT ![t].exc = made.exc, ![t].message = made.message]
    /\ UNCHANGED <<poolVars, lock, seqVars, calls, advanced>>

\* ApiKeyManager(config.api_keys), over a configuration that was loaded,
\* validated or not.  (The arithmetic of a pool over a NaN weight is not
\* part of these runs.)
ConfigNewManager(t) ==
    /\ pc[t] \in {"Loaded", "Validated"}
    /\ loc[t].loaded
    /\ ~loc[t].built
    /\ loc[t].exc = "none"
    /\ Numeric(loc[t].config.api_keys)
    /\ IF IsEmptyKeys(loc[t].config.api_keys)
       THEN loc' = [loc EXCEPT ![t].exc = "ValueError",
                               ![t].message = "At least one API key is required"]
       ELSE loc' = [loc EXCEPT ![t].built = TRUE,
                       ![t].manager = NewManager(PoolKeys(loc[t].config.api_keys))]
    /\ UNCHANGED <<poolVars, lock, seqVars, pc, calls, advanced>>

\* manager.update_keys(config.api_keys) on the running pool.
ConfigUpdateKeys(t) ==
    /\ pc[t] \in {"Loaded", "Validated"}
    /\ loc[t].loaded
    /\ Numeric(loc[t].config.api_keys)
    /\ UpdateKeys(PoolKeys(loc[t].config.api_keys))
    /\ UNCHANGED advanced

ConfigDiscard(t) ==
    /\ pc[t] \in {"Loaded", "Validated", "Invalid"}
    /\ Goto(t, "idle")
    /\ loc' = [loc EXCEPT ![t] = NoLocals]
    /\ UNCHANGED <<poolVars, lock, seqVars, calls, advanced>>

NextConfig ==
    \E t \in Callers :
        \/ \E raw \in RawLists : LoadConfigFromFile(t, raw)
        \/ ConfigValidate(t)
        \/ ConfigNewManager(t)
        \/ ConfigUpdateKeys(t)
        \/ ConfigDiscard(t)

SpecConfig == InitTranslate /\ [][NextConfig]_vars

\* ------------------------------------------------------------- the start-up
\* run_app() without a configuration object: load_config(config_path), then
\* init_app and web.run_app.  The file at config_path holds an api_keys list;
\* one of the default paths may hold another file; the operator's answers to
\* the interactive setup are a list of credentials, or the operator aborts.
DefaultFiles ==
    { [exists |-> FALSE] } \cup
    { [exists |-> TRUE, raw |-> raw] :
          raw \in { <<>>, <<[form |-> "string", key |-> TestKeys[2]]>>,
                    <<[form |-> "other"]>> } }

\* create_config_interactive(): ApiKeyConfig(key=api_key, weight=weight,
\* name=name) per answer, the weight positive, the name as typed or key_<n>.
Answered(names) ==
    [aborted  |-> FALSE,
     api_keys |-> [n \in DOMAIN names |->
                      [key |-> TestKeys[1], weight |-> Num(1), name |-> names[n]]]]

InteractiveAnswers ==
    { [aborted |-> TRUE] } \cup
    { Answered(names) : names \in { <<"key_1">>, <<"key_2", "key_2">> } }

NewStart(raw) ==
    [op |-> "start", raw |-> raw, config |-> [api_keys |-> <<>>],
     source |-> "none", logged |-> "none", exc |-> "none", message |-> "none",
     served |-> FALSE]

\* load_config: "config = load_config_from_file(config_path)"; the exception
\* of from_dict is logged and None is returned.
StartLoadConfig(t, raw) ==
    /\ Begin(t)
    /\ LET made == FromDict(raw, 0, <<>>)
       IN  IF made.ok
           THEN /\ Goto(t, "ConfigLoaded")
                /\ loc' = [loc EXCEPT ![t] =
                       [NewStart(raw) EXCEPT !.config = made.value,
                                             !.source = "config_path"]]
           ELSE /\ Goto(t, "DefaultPaths")
                /\ loc' = [loc EXCEPT ![t] =
                       [NewStart(raw) EXCEPT !.logged = made.message]]
    /\ UNCHANGED <<poolVars, lock, seqVars, advanced>>

\* load_config: "if not config: for path in default_paths:".
StartDefaultPaths(t, file) ==
    /\ pc[t] = "DefaultPaths"
    /\ LET made == IF file.exists THEN FromDict(file.raw, 0, <<>>)
                   ELSE Raised("none", "none")
       IN  IF made.ok
           THEN /\ Goto(t, "ConfigLoaded")
                /\ loc' = [loc EXCEPT ![t].config = made.value,
                                       ![t].source = "default_path"]
           ELSE /\ Goto(t, "Interactive")
                /\ UNCHANGED loc
    /\ UNCHANGED <<poolVars, lock, seqVars, calls, advanced>>

\* load_config: "if not config: config = create_config_interactive()"; an
\* abort is logged and raised again.
StartInteractive(t, answer) ==
    /\ pc[t] = "Interactive"
    /\ IF answer.aborted
       THEN /\ Goto(t, "Raised")
            /\ loc' = [loc EXCEPT ![t].exc = "KeyboardInterrupt",
                                   ![t].message = "Configuration creation aborted"]
       ELSE /\ Goto(t, "ConfigLoaded")
            /\ loc' = [loc EXCEPT ![t].config = [api_keys |-> answer.api_keys],
                                   ![t].source = "interactive"]
    /\ UNCHANGED <<poolVars, lock, seqVars, calls, advanced>>

\* load_config: "config.validate()"; a ValueError is logged and raised again,
\* and run_app, which calls load_config outside its try block, raises it.
StartValidate(t) ==
    /\ pc[t] = "ConfigLoaded"
    /\ LET made == Validate(loc[t].config)
       IN  IF made.ok
           THEN /\ Goto(t, "Validated")
                /\ UNCHANGED loc
           ELSE /\ Goto(t, "Raised")
                /\ loc' = [loc EXCEPT ![t].exc = made.exc, ![t].message = made.message]
    /\ UNCHANGED <<poolVars, lock, seqVars, calls, advanced>>

\* init_app(config): the configuration stored, setup_routes, setup_middleware.
StartInitApp(t) ==
    /\ pc[t] = "Validated"
    /\ Goto(t, "RoutesRegistered")
    /\ UNCHANGED <<poolVars, lock, seqVars, loc, calls, advanced>>

\* web.run_app: a request is served.
StartServe(t) ==
    /\ pc[t] = "RoutesRegistered"
    /\ Goto(t, "Serving")
    /\ loc' = [loc EXCEPT ![t].served = TRUE]
    /\ UNCHANGED <<poolVars, lock, seqVars, calls, advanced>>

\* The process ends: by the exception, or by a signal while it serves.
StartExit(t) ==
    /\ pc[t] \in {"Raised", "Serving"}
    /\ Goto(t, "idle")
    /\ loc' = [loc EXCEPT ![t] = NoLocals]
    /\ UNCHANGED <<poolVars, lock, seqVars, calls, advanced>>

NextStart ==
    \E t \in Callers :
        \/ \E raw \in RawLists : StartLoadConfig(t, raw)
        \/ \E file \in DefaultFiles : StartDefaultPaths(t, file)
        \/ \E answer \in InteractiveAnswers : StartInteractive(t, answer)
        \/ StartValidate(t)
        \/ StartInitApp(t)
        \/ StartServe(t)
        \/ StartExit(t)

SpecStart == InitTranslate /\ [][NextStart]_vars

\* ------------------------------------------------------ the middleware chain
\* setup_middleware appends error_middleware, logging_middleware and
\* cors_middleware, in this order; aiohttp calls the first of the list first,
\* so each one awaits the next of the list and the last one the handler.
Middlewares == <<"error_middleware", "logging_middleware", "cors_middleware">>

\* What the handler of a request does: it returns a response, it raises an
\* HTTP exception (web.HTTPException, a response by itself), or it raises
\* another exception, whose text is the detail.
Outcomes ==
    { [exc |-> "none", status |-> st, detail |-> "none"] : st \in {200, 404} } \cup
    { [exc |-> "HTTPException", status |-> st, detail |-> "none"] : st \in {400, 404} } \cup
    { [exc |-> "Exception", status |-> 0, detail |-> d] :
          d \in {"detail-1", "backend-payload"} }

NoHeaders == [h \in {} |-> ""]

\* The three assignments to response.headers in cors_middleware.
CorsHeaders ==
    ("Access-Control-Allow-Origin" :> "*") @@
    ("Access-Control-Allow-Methods" :> "GET, POST, OPTIONS") @@
    ("Access-Control-Allow-Headers" :> "Content-Type, Authorization")

HandlerResponse(status) == [kind |-> "response", status |-> status]

NewHttp ==
    [op |-> "http", outcome |-> [exc |-> "none", status |-> 0, detail |-> "none"],
     raised |-> "none", response |-> <<>>, headers |-> NoHeaders,
     depth |-> Len(Middlewares), log |-> <<>>, sent |-> <<>>, sent_headers |-> <<>>]

\* A request arrives and goes down the chain to its handler.
AppReceive(t) ==
    /\ Begin(t)
    /\ Goto(t, "Received")
    /\ loc' = [loc EXCEPT ![t] = NewHttp]
    /\ UNCHANGED <<poolVars, lock, seqVars, advanced>>

\* The handler returns or raises.
AppHandle(t, outcome) ==
    /\ pc[t] = "Received"
    /\ Goto(t, "Unwinding")
    /\ loc' = [loc EXCEPT ![t].outcome = outcome,
                          ![t].raised = outcome.exc,
                          ![t].response = IF outcome.exc = "none"
                                          THEN <<HandlerResponse(outcome.status)>>
                                          ELSE <<>>]
    /\ UNCHANGED <<poolVars, lock, seqVars, calls, advanced>>

At(t, middleware) ==
    /\ pc[t] = "Unwinding"
    /\ loc[t].depth >= 1
    /\ Middlewares[loc[t].depth] = middleware

\* cors_middleware: "response = await handler(request)", then the three
\* headers; an exception of the handler leaves the function at the await.
AppCors(t) ==
    /\ At(t, "cors_middleware")
    /\ loc' = [loc EXCEPT ![t].depth = @ - 1,
                          ![t].headers = IF loc[t].raised = "none"
                                         THEN CorsHeaders @@ @ ELSE @]
    /\ UNCHANGED <<poolVars, lock, seqVars, pc, calls, advanced>>

\* logging_middleware: logger.info with the status of the response, or
\* "except Exception": logger.error with the exception, and "raise".
AppLogging(t) ==
    /\ At(t, "logging_middleware")
    /\ loc' = [loc EXCEPT ![t].depth = @ - 1,
                          ![t].log = Append(@,
                              IF loc[t].raised = "none"
                              THEN [by |-> "logging_middleware", level |-> "info",
                                    status |-> loc[t].response[1].status,
                                    detail |-> "none"]
                              ELSE [by |-> "logging_middleware", level |-> "error",
                                    status |-> 0,
                                    detail |-> loc[t].outcome.detail])]
    /\ UNCHANGED <<poolVars, lock, seqVars, pc, calls, advanced>>

\* error_middleware: "except web.HTTPException: raise"; "except Exception":
\* logger.error and the JSON response of status 500.
AppError(t) ==
    /\ At(t, "error_middleware")
    /\ IF loc[t].raised # "none" /\ Converted(loc[t].raised)
       THEN loc' = [loc EXCEPT ![t].depth = @ - 1,
                               ![t].raised = "none",
                               ![t].response = <<InternalError>>,
                               ![t].headers = NoHeaders,
                               ![t].log = Append(@,
                                   [by |-> "error_middleware", level |-> "error",
                                    status |-> 0, detail |-> loc[t].outcome.detail])]
       ELSE loc' = [loc EXCEPT ![t].depth = @ - 1]
    /\ UNCHANGED <<poolVars, lock, seqVars, pc, calls, advanced>>

\* Out of the chain: aiohttp sends the response that was returned, or the
\* HTTP exception that was raised as the response it is.
AppRespond(t) ==
    /\ pc[t] = "Unwinding"
    /\ loc[t].depth = 0
    /\ Goto(t, "Responded")
    /\ loc' = [loc EXCEPT
           ![t].sent = Append(@,
               IF loc[t].raised = "none" THEN loc[t].response[1]
               ELSE IF loc[t].raised = "HTTPException"
               THEN [kind |-> "http_exception", status |-> loc[t].outcome.status]
               ELSE [kind |-> "server_error", status |-> 500]),
           ![t].sent_headers = Append(@,
               IF loc[t].raised = "none" THEN loc[t].headers ELSE NoHeaders)]
    /\ UNCHANGED <<poolVars, lock, seqVars, calls, advanced>>

AppDone(t) ==
    /\ pc[t] = "Responded"
    /\ Goto(t, "idle")
    /\ loc' = [loc EXCEPT ![t] = NoLocals]
    /\ UNCHANGED <<poolVars, lock, seqVars, calls, advanced>>

NextApp ==
    \E t \in Threads :
        \/ AppReceive(t)
        \/ \E outcome \in Outcomes : AppHandle(t, outcome)
        \/ AppCors(t)
        \/ AppLogging(t)
        \/ AppError(t)
        \/ AppRespond(t)
        \/ AppDone(t)

SpecApp == InitTranslate /\ [][NextApp]_vars

\* ------------------------------------------------ all operations of the pool
\* One caller uses every method of ApiKeyManager on a pool of credentials
\* that carry a secret; the runs record the operation and its result, not
\* the draw.
WithSecrets(keys) ==
    [i \in DOMAIN keys |->
        ApiKeyConfigWithKey(keys[i].name, keys[i].weight, Repeat("a", i))]

\* The pool is constructed over any list; the lists that replace it have at
\* most one credential.
ShortKeyLists == { ks \in KeyLists : Len(ks) <= 1 }

InitFrame == \E keys \in NonEmptyKeyLists : InitPool(WithSecrets(keys))

\* get_key_by_name(name): the credential found, or None.
GetKeyByNameCall(name) ==
    /\ last' = Call("get_key_by_name", name, 0,
                    IF \E i \in DOMAIN api_keys : api_keys[i].name = name
                    THEN GetKeyByName(api_keys, 1, name) ELSE NoKey,
                    0, FALSE)
    /\ UNCHANGED <<poolVars, lock, cursorLog, tierLog, thrVars>>

NextFrame ==
    \/ GetNextKeyRoundRobin("frame")
    \/ GetNextKeyWeighted("frame")
    \/ GetNextKeyWeightedRoundRobin("frame")
    \/ \E name \in 1..(MaxKeys + 1) : GetKeyByNameCall(name)
    \/ \E t \in Callers : GetAllKeys(t)
    \/ GetStats
    \/ \E new_keys \in ShortKeyLists : UpdateKeys(WithSecrets(new_keys))

SpecFrame == InitFrame /\ [][NextFrame]_vars

\* ------------------------------------------------- the lists of the callers
\* A list is an object too: loc[t].keys are the items of the list that the
\* caller t holds, and loc[t].alias tells whether that list is the very
\* object self.api_keys of the pool, so that what the caller does to its
\* list is done to the pool's.
\* list.copy(): a new list object of the same items.
Copy_Reference(list) == [items |-> list, alias |-> TRUE]
Copy(list) == [items |-> list, alias |-> FALSE]

NewList(keys, alias) ==
    [op |-> "lists", keys |-> keys, alias |-> alias, passed |-> FALSE, n |-> 0]

\* The attributes of the pool become those of the manager.
Assigned(manager, op) ==
    /\ api_keys' = manager.api_keys
    /\ current_index' = manager.current_index
    /\ total_weight' = manager.total_weight
    /\ weight_groups' = manager.weight_groups
    /\ weight_group_indices' = manager.weight_group_indices
    /\ last' = Call(op, manager.api_keys, 0, NoKey, 0, FALSE)
    /\ cursorLog' = <<>>
    /\ tierLog' = [w \in DOMAIN manager.weight_groups |-> <<>>]
    /\ advanced' = NoneAdvanced(manager.weight_groups)

\* get_all_keys(): "return self.api_keys.copy()".
ListGetAllKeys(t) ==
    /\ pc[t] = "idle"
    /\ LET copied == Copy(api_keys)
       IN  loc' = [loc EXCEPT ![t] = NewList(copied.items, copied.alias)]
    /\ last' = Call("get_all_keys", <<>>, 0, NoKey, 0, FALSE)
    /\ UNCHANGED <<poolVars, lock, cursorLog, tierLog, pc, calls, advanced>>

\* What the caller writes to its list, the pool's list if it is the same.
ListWrite(t, keys, op) ==
    /\ CallerStep
    /\ loc' = [loc EXCEPT ![t].keys = keys, ![t].n = @ + 1]
    /\ last' = Call(op, <<>>, 0, NoKey, 0, FALSE)
    /\ IF loc[t].alias
       THEN /\ api_keys' = keys
            /\ UNCHANGED <<current_index, total_weight, weight_groups,
                           weight_group_indices>>
       ELSE UNCHANGED poolVars
    /\ UNCHANGED <<lock, cursorLog, tierLog, pc, advanced>>

\* list.append(ApiKeyConfig(...)), list.pop(i), list.reverse().
ListAppend(t, weight) ==
    /\ loc[t].op = "lists"
    /\ Len(loc[t].keys) < MaxKeys
    /\ ListWrite(t, Append(loc[t].keys, ApiKeyConfig(MaxKeys + calls + 1, weight)),
                 "caller_append")

ListPop(t, i) ==
    /\ loc[t].op = "lists"
    /\ i \in DOMAIN loc[t].keys
    /\ ListWrite(t, SubSeq(loc[t].keys, 1, i - 1)
                       \o SubSeq(loc[t].keys, i + 1, Len(loc[t].keys)),
                 "caller_pop")

ListReverse(t) ==
    /\ loc[t].op = "lists"
    /\ Len(loc[t].keys) >= 2
    /\ ListWrite(t, [i \in DOMAIN loc[t].keys |->
                          loc[t].keys[Len(loc[t].keys) + 1 - i]],
                 "caller_reverse")

\* ApiKeyManager(list) and update_keys(list) with the list of the caller:
\* "self.api_keys = api_keys.copy()", and the attributes computed from it.
ListPass(t, op) ==
    /\ loc[t].op = "lists"
    /\ IF IsEmptyKeys(loc[t].keys)
       THEN /\ last' = Call(op, <<>>, 0, NoKey, 0, TRUE)
            /\ UNCHANGED <<poolVars, cursorLog, tierLog, advanced, loc>>
       ELSE LET copied == Copy(loc[t].keys)
            IN  /\ Assigned(NewManager(copied.items), op)
                /\ loc' = [loc EXCEPT ![t].alias = copied.alias,
                                       ![t].passed = TRUE, ![t].n = 0]
    /\ UNCHANGED <<lock, pc, calls>>

NextLists ==
    \E t \in Callers :
        \/ ListGetAllKeys(t)
        \/ \E weight \in 1..MaxWeight : ListAppend(t, weight)
        \/ \E i \in 1..MaxKeys : ListPop(t, i)
        \/ ListReverse(t)
        \/ \E op \in {"init", "update_keys"} : ListPass(t, op)

SpecLists == InitConc /\ [][NextLists]_vars

\* ------------------------------------------------ vocabulary of the claims
\* The weights that occur in a list of credentials.
WeightsIn(keys) == { keys[i].weight : i \in DOMAIN keys }

\* The credentials of weight w, in the order of the list.
Tier(keys, w) == SelectSeq(keys, LAMBDA k : k.weight = w)

\* The mass of the tier of weight w: weight * |tier|.
TierMass(keys, w) == w * Cardinality({ i \in DOMAIN keys : keys[i].weight = w })

\* The mass of the tiers whose weights are in S.
RECURSIVE MassOf(_, _)
MassOf(keys, S) ==
    IF S = {} THEN 0
    ELSE LET w == CHOOSE x \in S : TRUE
         IN  TierMass(keys, w) + MassOf(keys, S \ {w})

\* The sum of the weights of the first i credentials of the list.
CumWeight(keys, i) == MassOf(SubSeq(keys, 1, i), WeightsIn(SubSeq(keys, 1, i)))

\* The number of entries of log[from..to] that are the credential c.
Count(log, from, to, c) == Cardinality({ i \in from..to : log[i] = c })

\* A log of selections out of list (a pool or a tier) whose cursor is now at
\* index: every m * |list| consecutive entries hold each credential of the
\* list exactly m times, each entry is followed by the next credential of the
\* list in cyclic order, and the last entry is the one just before the cursor.
ExactRotation(log, list, index) ==
    LET k == Len(list)
    IN  /\ \A m \in 1..MaxM : \A s \in 1..Len(log) :
              s + m * k - 1 <= Len(log) =>
                  \A j \in 1..k : Count(log, s, s + m * k - 1, list[j]) = m
        /\ \A i \in 1..(Len(log) - 1) :
              \E j \in 1..k : log[i] = list[j] /\ log[i + 1] = list[(j % k) + 1]
        /\ Len(log) > 0 => log[Len(log)] = list[((index + k - 1) % k) + 1]
        /\ index \in 0..(k - 1)

\* C1: within one pool, the weighted-round-robin selections that land in a
\* tier of k credentials return them in the tier's pool order, cyclically from
\* the tier cursor: any m * k consecutive ones return each credential of the
\* tier exactly m times, and none twice before each tier-mate once.
C1_IntraTierExactness ==
    \A w \in DOMAIN weight_groups :
        /\ w \in DOMAIN tierLog
        /\ weight_groups[w] = Tier(api_keys, w)
        /\ ExactRotation(tierLog[w], Tier(api_keys, w), weight_group_indices[w])

C1_Witness ==
    \E w \in DOMAIN weight_groups :
        /\ Len(weight_groups[w]) >= 2
        /\ Cardinality(DOMAIN weight_groups) >= 2
        /\ Len(tierLog[w]) = MaxM * Len(weight_groups[w])
        /\ last.op = "weighted_round_robin"

\* C2: with a positive total weight and a draw r in [0, total), the selected
\* tier is the one whose range of cumulative mass, tiers taken from the
\* heaviest down, contains r: (mass of the heavier tiers, that mass plus its
\* own]; a draw on the boundary of two tiers selects the heavier one, and the
\* draw 0 the heaviest.
C2_TierChoice ==
    (/\ last.op = "weighted_round_robin"
     /\ total_weight > 0
     /\ last.draw < DrawDen * total_weight)
    => LET w     == last.tier
           above == MassOf(api_keys, { x \in WeightsIn(api_keys) : x > w })
       IN  /\ w \in WeightsIn(api_keys)
           /\ last.key.weight = w
           /\ last.draw <= DrawDen * (above + TierMass(api_keys, w))
           /\ \/ DrawDen * above < last.draw
              \/ last.draw = 0 /\ above = 0

C2_Witness ==
    /\ last.op = "weighted_round_robin"
    /\ total_weight > 0
    /\ last.draw < DrawDen * total_weight
    /\ \E x \in WeightsIn(api_keys) : x > last.tier
    /\ \E x \in WeightsIn(api_keys) : 0 < x /\ x < last.tier
    /\ last.draw = DrawDen * (MassOf(api_keys, { x \in WeightsIn(api_keys) : x > last.tier })
                              + TierMass(api_keys, last.tier))

\* C3: on a pool whose total weight is not positive, a selection of any of the
\* three strategies returns the credential at the global cursor and advances
\* that cursor by one modulo the pool size; nothing else of the pool changes.
C3_Fallback ==
    [][ (/\ total_weight <= 0
         /\ last'.op \in {"round_robin", "weighted", "weighted_round_robin"})
        => (/\ ~last'.err
            /\ last'.key = api_keys[current_index + 1]
            /\ current_index' = (current_index + 1) % Len(api_keys)
            /\ UNCHANGED <<api_keys, total_weight, weight_groups,
                           weight_group_indices, lock, tierLog>>) ]_vars

C3_Witness ==
    /\ total_weight <= 0
    /\ Len(api_keys) >= 2
    /\ last.op = "weighted_round_robin"
    /\ last.key = api_keys[Len(api_keys)]
    /\ current_index = 0

\* C4: the selections made through the global cursor since the last replace
\* return pool[cursor] and advance the cursor by one modulo the pool size,
\* whatever the weights: any n * size consecutive ones return every
\* credential exactly n times, in pool order.
C4_RoundRobin ==
    ExactRotation(cursorLog, api_keys, current_index)

C4_Witness ==
    /\ last.op = "round_robin"
    /\ total_weight > 0
    /\ Len(api_keys) = MaxKeys
    /\ Cardinality(WeightsIn(api_keys)) >= 2
    /\ Len(cursorLog) = MaxM * Len(api_keys)

\* C5: with a positive total weight and a draw in [0, total), the weighted
\* random selection returns the first credential in pool order whose
\* cumulative weight strictly exceeds the draw.
C5_StrictlyExceeds ==
    (/\ last.op = "weighted"
     /\ total_weight > 0
     /\ last.draw < DrawDen * total_weight)
    => \E i \in DOMAIN api_keys :
           /\ last.key = api_keys[i]
           /\ DrawDen * CumWeight(api_keys, i) > last.draw
           /\ \A j \in 1..(i - 1) : DrawDen * CumWeight(api_keys, j) <= last.draw

\* C6: after replace(newCredentials) with a non-empty list the pool is in the
\* state of a pool freshly constructed over newCredentials: that sequence,
\* global cursor 0, the tiers of the new set only, each with cursor 0, and
\* the total weight of the new set.
C6_ReplaceIsFresh ==
    (last.op = "update_keys" /\ last.arg # <<>>)
    => /\ ~last.err
       /\ api_keys = last.arg
       /\ current_index = 0
       /\ total_weight = MassOf(last.arg, WeightsIn(last.arg))
       /\ weight_groups = [w \in WeightsIn(last.arg) |-> Tier(last.arg, w)]
       /\ weight_group_indices = [w \in WeightsIn(last.arg) |-> 0]
       /\ lock = "free"
       /\ \E fresh \in NonEmptyKeyLists :
              LET st == GroupKeys(fresh, 1, [groups |-> EmptyDict, indices |-> EmptyDict])
              IN  poolVars = <<fresh, 0, SumWeights(fresh), st.groups, st.indices>>

C6_Witness ==
    /\ last.op = "update_keys"
    /\ ~last.err
    /\ Len(api_keys) >= 2
    /\ Cardinality(DOMAIN weight_groups) >= 2

\* C7: replace with an empty list fails and leaves the pool as it was: the
\* credentials, the global cursor, the tiers, their cursors and the total
\* weight are unchanged, so the rotation continues where it was.
C7_EmptyReplaceRejected ==
    [][ (last'.op = "update_keys" /\ last'.arg = <<>>)
        => (/\ last'.err
            /\ UNCHANGED <<poolVars, lock, cursorLog, tierLog>>) ]_vars

C7_Witness ==
    /\ last.op = "update_keys"
    /\ last.err
    /\ current_index > 0
    /\ \E w \in DOMAIN weight_group_indices : weight_group_indices[w] > 0

\* A thread is inside a "with self._lock:" block.
InCS(t) == pc[t] \in {"rr_read", "rr_write", "wrr_read", "wrr_write",
                      "upd_keys", "upd_rest"}

Quiescent == \A t \in Threads : ~InCS(t)

\* C8: what a call that runs beside a replace has seen is one pool, the old
\* or the new: the total weight it used is the total of the list it walked,
\* and the count, total and cursor that stats reports are those of the list
\* it reports.
C8_AtomicReplace ==
    \A t \in Threads :
        pc[t] = "done" =>
            /\ (loc[t].op = "weighted" /\ ~loc[t].err) =>
                   /\ loc[t].tw = SumWeights(loc[t].keys)
                   /\ \E i \in DOMAIN loc[t].keys : loc[t].key = loc[t].keys[i]
            /\ loc[t].op = "stats" =>
                   /\ loc[t].n = Len(loc[t].keys)
                   /\ loc[t].tw = SumWeights(loc[t].keys)
                   /\ loc[t].index < Len(loc[t].keys)

C10_DeadlockFreedom ==
    /\ [](\A t \in Threads :
              pc[t] \in {"rr_acquire", "wrr_acquire", "upd_acquire"} => lock # t)
    /\ [](Quiescent => lock = "free")
    /\ \A t \in Threads : (pc[t] # "idle") ~> (pc[t] = "idle")

C10_Witness ==
    \E t \in Threads :
        /\ pc[t] = "rr_acquire"
        /\ loc[t].op = "weighted"
        /\ lock \in Threads \ {t}

\* The number of credentials of weight w in a list.
TierSize(keys, w) == Cardinality({ i \in DOMAIN keys : keys[i].weight = w })

\* C11: after any sequence of selections and replacements the global cursor
\* is an index of the pool, in [0, pool size), every tier of the pool has a
\* cursor and no other weight has one, and each tier cursor is an index of
\* its tier, in [0, tier size).
C11_CursorValidity ==
    /\ current_index \in 0..(Len(api_keys) - 1)
    /\ DOMAIN weight_group_indices = WeightsIn(api_keys)
    /\ \A w \in WeightsIn(api_keys) :
           weight_group_indices[w] \in 0..(TierSize(api_keys, w) - 1)

\* Both kinds of cursor on the last index, one step before they wrap.
C11_Witness ==
    /\ Len(api_keys) = MaxKeys
    /\ current_index = Len(api_keys) - 1
    /\ \E w \in WeightsIn(api_keys) :
           /\ TierSize(api_keys, w) >= 2
           /\ TierSize(api_keys, w) < Len(api_keys)
           /\ weight_group_indices[w] = TierSize(api_keys, w) - 1

\* A thread is inside the "with self._lock:" block of update_keys.
InReplace(t) == pc[t] \in {"upd_keys", "upd_rest"}

\* The number of times the credential c is in a list.
Occurrences(list, c) == Cardinality({ i \in DOMAIN list : list[i] = c })

\* C12: whenever no thread is inside a replace critical section, every
\* credential of the pool is in the tier keyed by its weight and in no other,
\* every tier holds credentials of the pool only, each as often as the pool
\* does (none missing, none duplicated), no tier is empty, and the cached
\* total weight is the sum of the weights of the pool's credentials.
C12_DerivedData ==
    (\A t \in Threads : ~InReplace(t)) =>
        /\ DOMAIN weight_groups = WeightsIn(api_keys)
        /\ \A i \in DOMAIN api_keys : \A w \in DOMAIN weight_groups :
               Occurrences(weight_groups[w], api_keys[i]) =
                   IF w = api_keys[i].weight
                   THEN Occurrences(api_keys, api_keys[i]) ELSE 0
        /\ \A w \in DOMAIN weight_groups : \A j \in DOMAIN weight_groups[w] :
               Occurrences(api_keys, weight_groups[w][j]) > 0
        /\ total_weight = MassOf(api_keys, WeightsIn(api_keys))

\* A replace that ran beside another call has completed: the pool is not the
\* one constructed, and it has a tier of two or two tiers.
C12_Witness ==
    /\ \A t \in Threads : ~InReplace(t)
    /\ \E t \in Threads : pc[t] \notin {"idle", "done"}
    /\ api_keys # last.arg
    /\ WeightsIn(api_keys) # WeightsIn(last.arg)
    /\ Len(api_keys) = MaxConcKeys

\* C13: while the total weight of the pool is positive, the weighted random
\* selection and the weighted round robin return a credential of positive
\* weight, whatever the draw and wherever the credentials of weight <= 0 are
\* in the pool order.
C13_NonPositiveExcluded ==
    (/\ last.op \in {"weighted", "weighted_round_robin"}
     /\ total_weight > 0)
    => (~last.err /\ last.key.weight > 0)

\* C14: a credential of weight <= 0 is tolerated: constructing one raises
\* no error and yields the credential, which can then be placed in a pool.
C14_NonPositiveTolerated ==
    (last.op = "ApiKeyConfig" /\ last.arg.weight <= 0)
    => (~last.err /\ last.key = last.arg)

Selections == {"round_robin", "weighted", "weighted_round_robin"}

\* C15: a pool of one credential returns that credential at every selection,
\* whatever the strategy and the draw, and its global cursor and the cursor
\* of its one tier are 0 in every state.
C15_SingleCredential ==
    Len(api_keys) = 1 =>
        /\ current_index = 0
        /\ Cardinality(DOMAIN weight_group_indices) = 1
        /\ \A w \in DOMAIN weight_group_indices : weight_group_indices[w] = 0
        /\ last.op \in Selections => (~last.err /\ last.key = api_keys[1])

\* A pool of one credential, the second of the larger pool it replaced, has
\* served a weighted selection on a positive total weight.
C15_Witness ==
    /\ Len(api_keys) = 1
    /\ api_keys[1].name = 2
    /\ last.op = "weighted"
    /\ total_weight > 0

\* C17: whatever the caller does to the value that all() returned (adding,
\* removing or reordering entries, changing a returned credential) leaves the
\* pool's credential sequence, cursors, tiers and total weight as they were,
\* and with them the result of every later selection.
C17_SnapshotIsolated ==
    [][ last'.op \in {"caller_append", "caller_pop", "caller_reverse",
                      "caller_set_weight"}
        => UNCHANGED poolVars ]_vars

\* The draws that stand for the range (0, total]: the draw d stands for the
\* interval ((d - 1) / DrawDen, d / DrawDen], on which the selection is that
\* of d, the tier boundaries being whole numbers.
DrawRange(tw) == 1..(DrawDen * tw)

\* C16: on a pool of positive total weight the share of the draw range that
\* selects a tier is exactly the tier's mass weight * |tier| out of the total
\* weight, and a selection that lands in a tier returns the credential at the
\* tier cursor and moves that cursor by one, so that the selections of a tier
\* are split evenly among its credentials: a credential of weight w is
\* selected with frequency w / total.
C16_Fairness ==
    total_weight > 0 =>
        /\ \A w \in DOMAIN weight_groups :
               Cardinality({ d \in DrawRange(total_weight) :
                               SelectedWeight(weight_groups, d) = w })
                   = DrawDen * TierMass(api_keys, w)
        /\ last.op = "weighted_round_robin" =>
               LET tier == Tier(api_keys, last.tier)
                   k    == Len(tier)
               IN  /\ k > 0
                   /\ last.key = tier[((weight_group_indices[last.tier] + k - 1) % k) + 1]

\* Three credentials of positive weights in two tiers, the tier of two
\* credentials just selected.
C16_Witness ==
    /\ total_weight > 0
    /\ \A i \in DOMAIN api_keys : api_keys[i].weight > 0
    /\ Cardinality(WeightsIn(api_keys)) = 2
    /\ last.op = "weighted_round_robin"
    /\ TierSize(api_keys, last.tier) = 2
    /\ last.tier = MaxWeight
    /\ weight_group_indices[last.tier] = 0

\* C18: the preview that stats() reports of a credential is never its full
\* secret, whatever the length of the secret.
C18_PreviewHidesSecret ==
    last.op = "get_stats" =>
        \A i \in DOMAIN api_keys :
            last.result.keys[i].key_preview # api_keys[i].key

\* The requests that the tasks are handling or have handled last.
IsRequest(t) == loc[t].op = "request"

\* C19 as stated: from Received to its terminal state a request performs
\* exactly one pool selection.
C19_ExactlyOneSelection ==
    \A t \in Threads :
        (IsRequest(t) /\ pc[t] \in Terminal) => loc[t].selections = 1

\* C19 as amended: a request performs at most one pool selection, none
\* before it is translated and exactly one from CredentialSelected on (so a
\* request that ends in Sent, or in Errored after a backend failure, has
\* performed exactly one, and a request rejected as invalid none); the
\* selection advances one cursor by one modulo its size (the cursor of the
\* selected tier, or the global cursor in the fallback) and changes nothing
\* else of the pool; the backend is called at most once, with the selected
\* credential, and after a backend failure nothing more is selected or called.
C19_SelectionOnce ==
    /\ [](\A t \in Threads : IsRequest(t) =>
            /\ loc[t].selections =
                   (IF pc[t] \in {"Received", "Translating"} THEN 0
                    ELSE IF pc[t] = "Errored" /\ loc[t].error = "InvalidRequest"
                    THEN 0 ELSE 1)
            /\ loc[t].backend_calls =
                   (IF pc[t] \in {"BackendCalled", "Translated", "Sent"} THEN 1
                    ELSE IF pc[t] = "Errored" /\ loc[t].error # "InvalidRequest"
                    THEN 1 ELSE 0)
            /\ \A i \in DOMAIN loc[t].called_with :
                   /\ loc[t].called_with[i] = loc[t].key
                   /\ loc[t].key # NoKey)
    /\ [][ \A t \in Threads :
             (IsRequest(t) /\ loc'[t].selections # loc[t].selections
              /\ pc[t] # "Received" /\ pc'[t] # "Received")
             => /\ loc'[t].selections = loc[t].selections + 1
                /\ \E i \in DOMAIN api_keys : loc'[t].key = api_keys[i]
                /\ UNCHANGED <<api_keys, total_weight, weight_groups>>
                /\ IF total_weight > 0
                   THEN /\ current_index' = current_index
                        /\ weight_group_indices' =
                               [weight_group_indices EXCEPT ![loc'[t].key.weight] =
                                    (@ + 1) % TierSize(api_keys, loc'[t].key.weight)]
                   ELSE /\ current_index' = (current_index + 1) % Len(api_keys)
                        /\ weight_group_indices' = weight_group_indices ]_vars
    /\ [][ \A t \in Threads :
             (IsRequest(t) /\ pc[t] = "Errored" /\ pc'[t] = "Errored")
             => loc'[t] = loc[t] ]_vars

\* A request has ended in Errored after its one backend call was rejected,
\* and the other task has selected the second credential of the same tier.
C19_Witness ==
    \E t \in Threads : \E u \in Threads \ {t} :
        /\ IsRequest(t) /\ IsRequest(u)
        /\ pc[t] = "Errored"
        /\ loc[t].error = "BackendRejected"
        /\ pc[u] = "CredentialSelected"
        /\ loc[u].key # loc[t].key
        /\ loc[u].key.weight = loc[t].key.weight
        /\ loc[t].key.weight > 0

AllowedMoves ==
    {<<"idle", "Received">>, <<"Sent", "Received">>, <<"Errored", "Received">>,
     <<"Received", "Translating">>, <<"Translating", "CredentialSelected">>,
     <<"CredentialSelected", "BackendCalled">>, <<"BackendCalled", "Translated">>,
     <<"Translated", "Sent">>}
        \cup { <<m, "Errored">> : m \in Middle }

Successful == {"completion", "chunk", "final_chunk", "[DONE]"}

\* C20: a request moves only along Received -> Translating ->
\* CredentialSelected -> BackendCalled -> Translated -> Sent, enters Errored
\* only from a middle state, stays in the terminal state it has reached and
\* reaches one; in Errored it has produced exactly one JSON error envelope
\* and nothing else, and no completion, chunk or sentinel follows; before a
\* terminal state it has produced nothing.
C20_RequestStateMachine ==
    /\ [][ \A t \in Threads :
             pc'[t] # pc[t] => <<pc[t], pc'[t]>> \in AllowedMoves ]_vars
    /\ [][ \A t \in Threads :
             (pc[t] \in Terminal /\ pc'[t] \in Terminal)
             => (pc'[t] = pc[t] /\ loc'[t] = loc[t]) ]_vars
    /\ [](\A t \in Threads : IsRequest(t) =>
            /\ pc[t] = "Errored" =>
                   /\ Len(loc[t].emitted) = 1
                   /\ loc[t].emitted[1].kind = "envelope"
                   /\ loc[t].error # "none"
            /\ pc[t] = "Sent" =>
                   /\ loc[t].error = "none"
                   /\ Len(loc[t].emitted) >= 1
                   /\ \A i \in DOMAIN loc[t].emitted :
                          loc[t].emitted[i].kind \in Successful
            /\ pc[t] \notin Terminal => loc[t].emitted = <<>>)
    /\ \A t \in Threads : (pc[t] = "Received") ~> (pc[t] \in Terminal)

\* One request has ended in Errored on an exception that the middleware
\* turned into the envelope, after its backend call; the other has been sent
\* as a stream.
C20_Witness ==
    \E t \in Threads : \E u \in Threads \ {t} :
        /\ IsRequest(t) /\ IsRequest(u)
        /\ pc[t] = "Errored"
        /\ loc[t].raised = "Exception"
        /\ loc[t].backend_calls = 1
        /\ loc[t].emitted = <<InternalError>>
        /\ pc[u] = "Sent"
        /\ loc[u].stream

Locked == {"Selecting", "Selected", "upd_keys", "upd_rest"}

Waiting == {"Translating", "upd_acquire"}

\* C21: the lock of the pool is held only inside the "with" block of a
\* selection or of a replace, never by a task whose backend call is in flight
\* (nor by one that is about to call); the lock is free whenever no task is
\* inside such a block, whatever the number of backend calls in flight; and a
\* task that waits for the lock to select or to replace gets it even if no
\* backend call ever finishes.
C21_BackendOutsideLock ==
    /\ [](\A t \in Threads :
             pc[t] \in {"CredentialSelected", "BackendCalled"} => lock # t)
    /\ [](\A t \in Threads : lock = t <=> pc[t] \in Locked)
    /\ []((\A t \in Threads : pc[t] \notin Locked) => lock = "free")
    /\ \A u \in Threads : (pc[u] \in Waiting) ~> (lock = u)

\* Two requests have their backend calls in flight at the same time, with
\* the two credentials of one tier, and the lock is free.
C21_Witness ==
    \E t \in Threads : \E u \in Threads \ {t} :
        /\ pc[t] = "BackendCalled"
        /\ pc[u] = "BackendCalled"
        /\ loc[t].backend_calls = 1
        /\ loc[u].backend_calls = 1
        /\ loc[t].key # loc[u].key
        /\ lock = "free"

IsClient(t) == loc[t].op = "client"

Carries(message, x) == \E i \in DOMAIN message : message[i] = x

\* C22: a call that the backend answered with a status other than 200 has
\* raised an error that carries the status and the body of the answer, and
\* has returned nothing.
C22_RejectedCarriesStatusAndBody ==
    \A t \in Threads :
        (IsClient(t) /\ loc[t].status \notin {"none", "200"}) =>
            /\ loc[t].raised = "RuntimeError"
            /\ loc[t].result = "none"
            /\ Carries(loc[t].message, loc[t].status)
            /\ Carries(loc[t].message, loc[t].body)

\* C23: a query or get_models called on an entered client sends one request,
\* and every request sent has in x-access-tokens the secret of the credential
\* that the pool selected for the task.
C23_HeaderIsSelectedSecret ==
    \A t \in Threads :
        IsClient(t) =>
            /\ \A i \in DOMAIN loc[t].sent :
                   loc[t].sent[i].x_access_tokens = loc[t].key.key
            /\ (loc[t].session /\ ~loc[t].closed
                    /\ pc[t] \in {"InFlight", "Raised", "Returned"})
                   => Len(loc[t].sent) = 1

IsTranslation(t) == loc[t].op = "translate"

IsContentChunk(item) ==
    item.object = "chat.completion.chunk" /\ item.finish_reason = "none"

IsFinalChunk(item) ==
    item.object = "chat.completion.chunk" /\ item.finish_reason # "none"

IsDone(item) == item.object = "[DONE]"

\* The delta texts of the content chunks of a stream, concatenated in the
\* order of the stream.
RECURSIVE ConcatDeltas(_, _)
ConcatDeltas(items, i) ==
    IF i > Len(items) THEN <<>>
    ELSE (IF IsContentChunk(items[i]) THEN items[i].delta.content ELSE <<>>)
             \o ConcatDeltas(items, i + 1)

IsPrefix(s, text) == Len(s) <= Len(text) /\ s = SubSeq(text, 1, Len(s))

\* What the non-streaming path returns for a reply: the content of the one
\* choice of the completion object.
NonStreamingAnswer(id, reply) ==
    Completion(id, Normalize(reply).answer).choices[1].message.content

\* C24: the stream of a request with stream:true is one or more content
\* deltas, then one terminal chunk with finish_reason set, then one [DONE]
\* sentinel as the last item; the delta texts concatenated in send order are
\* a prefix of the non-streaming answer and, once the stream is sent, equal
\* to it; every item of the stream belongs to the request, and nothing is
\* emitted once [DONE] is sent.
C24_SynthesizedStream ==
    /\ [](\A t \in Threads :
            (IsTranslation(t) /\ loc[t].stream
                 /\ pc[t] \in {"Translated", "Streaming", "Finishing", "Sent"}) =>
            LET e == loc[t].emitted
                n == Len(e)
            IN  /\ \A i \in 1..n : e[i].request = loc[t].id
                /\ \A i \in 1..n : IsDone(e[i]) => (i = n /\ i >= 3 /\ IsFinalChunk(e[i - 1]))
                /\ \A i \in 1..n : IsFinalChunk(e[i]) =>
                       /\ i >= 2
                       /\ i >= n - 1
                       /\ \A j \in 1..(i - 1) : IsContentChunk(e[j])
                /\ IsPrefix(ConcatDeltas(e, 1), NonStreamingAnswer(loc[t].id, loc[t].reply))
                /\ pc[t] = "Sent" =>
                       /\ n >= 3
                       /\ IsDone(e[n])
                       /\ ConcatDeltas(e, 1) = NonStreamingAnswer(loc[t].id, loc[t].reply))
    /\ [][ \A t \in Threads :
             (pc[t] = "Sent" /\ pc'[t] = "Sent") => loc'[t] = loc[t] ]_vars

\* A stream of two content deltas "b", "a", the terminal chunk and the
\* sentinel has been sent while the other task is in the middle of its own
\* stream.
C24_Witness ==
    \E t \in Threads : \E u \in Threads \ {t} :
        /\ IsTranslation(t) /\ IsTranslation(u)
        /\ pc[t] = "Sent"
        /\ loc[t].stream
        /\ Len(loc[t].emitted) = 4
        /\ loc[t].emitted[1].delta.content = <<"b">>
        /\ loc[t].emitted[2].delta.content = <<"a">>
        /\ loc[t].answer = <<"b", "a">>
        /\ pc[u] = "Streaming"
        /\ loc[u].rest # <<>>

\* C25: the answer of a reply whose response is a string is that string; the
\* answer of a reply whose response is an object is the inner response, or
\* the message when the inner response is absent or empty; a flat and a
\* nested reply of the same text have the same answer; and the completion of
\* the non-streaming path has exactly one choice, of role assistant, whose
\* content is the answer.
C25_Normalization ==
    /\ \A t \in Threads :
        (IsTranslation(t) /\ pc[t] \in {"Translated", "Streaming", "Finishing", "Sent"}) =>
            LET r == loc[t].reply.response
            IN  /\ r.type = "string" => loc[t].answer = r.value
                /\ (r.type = "object" /\ "response" \in DOMAIN r.fields
                        /\ r.fields.response # <<>>)
                       => loc[t].answer = r.fields.response
                /\ (r.type = "object" /\ "message" \in DOMAIN r.fields
                        /\ ("response" \notin DOMAIN r.fields
                                \/ r.fields.response = <<>>))
                       => loc[t].answer = r.fields.message
                /\ (pc[t] = "Sent" /\ ~loc[t].stream) =>
                       /\ Len(loc[t].emitted) = 1
                       /\ loc[t].emitted[1].object = "chat.completion"
                       /\ Len(loc[t].emitted[1].choices) = 1
                       /\ loc[t].emitted[1].choices[1].message.role = "assistant"
                       /\ loc[t].emitted[1].choices[1].message.content = loc[t].answer
    /\ \A t \in Threads : \A u \in Threads :
        (/\ IsTranslation(t) /\ IsTranslation(u)
         /\ pc[t] = "Translated" /\ pc[u] = "Translated"
         /\ loc[t].reply.response.type = "string"
         /\ loc[u].reply.response.type = "object"
         /\ "response" \in DOMAIN loc[u].reply.response.fields
         /\ loc[u].reply.response.fields.response = loc[t].reply.response.value
         /\ loc[t].reply.response.value # <<>>)
            => loc[t].answer = loc[u].answer

\* A nested reply whose inner response is empty and whose message is "a"
\* has been sent as a completion of content "a", and a nested reply of
\* response "ba" and message "a" has the answer "ba".
C25_Witness ==
    \E t \in Threads : \E u \in Threads \ {t} :
        /\ IsTranslation(t) /\ IsTranslation(u)
        /\ pc[t] = "Sent"
        /\ ~loc[t].stream
        /\ loc[t].reply.response.type = "object"
        /\ loc[t].reply.response.fields = 
               [uuid |-> "12345-67890", response |-> <<>>, message |-> <<"a">>]
        /\ loc[t].emitted[1].choices[1].message.content = <<"a">>
        /\ pc[u] = "Translated"
        /\ loc[u].reply.response.type = "object"
        /\ loc[u].reply.response.fields =
               [uuid |-> "12345-67890", response |-> <<"b", "a">>, message |-> <<"a">>]
        /\ loc[u].answer = <<"b", "a">>

\* A reply without a response key, or whose response is an object with
\* neither response nor message.
IsMalformedReply(reply) ==
    \/ "response" \notin DOMAIN reply
    \/ /\ reply.response.type = "object"
       /\ "response" \notin DOMAIN reply.response.fields
       /\ "message" \notin DOMAIN reply.response.fields

\* C26: a request whose backend reply has no response key, or a nested
\* response with neither response nor message, goes from BackendCalled to
\* Errored with MalformedBackendResponse and the one error envelope; it is
\* never translated, and no completion or chunk is emitted for it.
C26_MalformedReply ==
    \A t \in Threads :
        (IsTranslation(t) /\ IsMalformedReply(loc[t].reply)) =>
            /\ pc[t] \in {"BackendCalled", "Errored"}
            /\ pc[t] = "BackendCalled" => loc[t].emitted = <<>>
            /\ pc[t] = "Errored" =>
                   /\ loc[t].error = "MalformedBackendResponse"
                   /\ loc[t].emitted = <<HandlerError("MalformedBackendResponse")>>

\* The reply {status: 200} has ended in Errored, and so has a nested reply
\* with neither response nor message.
C26_Witness ==
    \E t \in Threads : \E u \in Threads \ {t} :
        /\ IsTranslation(t) /\ IsTranslation(u)
        /\ pc[t] = "Errored"
        /\ loc[t].reply = [status |-> 200]
        /\ pc[u] = "Errored"
        /\ loc[u].reply = [status |-> 200,
                           response |-> JsonObject([uuid |-> "12345-67890"])]

IsExtraction(t) == loc[t].op = "extract"

\* The lines of a text: the pieces between its newlines.
RECURSIVE Lines(_, _, _)
Lines(text, i, line) ==
    IF i > Len(text) THEN <<line>>
    ELSE IF text[i] = Newline THEN <<line>> \o Lines(text, i + 1, <<>>)
    ELSE Lines(text, i + 1, Append(line, text[i]))

TextPartsOf(items) == SelectSeq(items, LAMBDA part : part.type = "text")

\* C27: the text extracted from a string is the string; the text extracted
\* from a list of parts has one line per part of type text, in the order of
\* the list, each line the text of its part, and no line for any other part
\* (no text at all for a list without parts of type text); the text
\* extracted from an empty string or an empty list is empty; and extracting
\* again from the extracted text gives the same text.
C27_TextExtraction ==
    \A t \in Threads :
        (IsExtraction(t) /\ pc[t] \in {"Extracted", "ExtractedAgain"}) =>
            LET content == loc[t].content
                text == loc[t].text
            IN  /\ content.type = "string" => text = content.value
                /\ content.type = "list" =>
                       LET parts == TextPartsOf(content.items)
                       IN  IF parts = <<>> THEN text = <<>>
                           ELSE /\ Len(Lines(text, 1, <<>>)) = Len(parts)
                                /\ \A i \in DOMAIN parts :
                                       Lines(text, 1, <<>>)[i] = parts[i].text
                /\ (content = JsonString(<<>>) \/ content = JsonList(<<>>))
                       => text = <<>>
                /\ pc[t] = "ExtractedAgain" => loc[t].again = text

\* The parts text "a", image, text "b" have given "a\nb", and extracting
\* again from it has given the same.
C27_Witness ==
    \E t \in Threads :
        /\ IsExtraction(t)
        /\ pc[t] = "ExtractedAgain"
        /\ loc[t].content = JsonList(<<TextPart(<<"a">>), ImagePart, TextPart(<<"b">>)>>)
        /\ loc[t].text = <<"a", Newline, "b">>
        /\ loc[t].again = loc[t].text

IsLoad(t) == loc[t].op = "load"

PositiveNumber(weight) == weight.type = "number" /\ weight.value > 0

\* An entry that gives a weight that is not a positive number.
BadWeight(entry) ==
    /\ entry.form = "object"
    /\ "weight" \in DOMAIN entry.fields
    /\ ~PositiveNumber(entry.fields.weight)

\* C28: the load of an api_keys list in which an entry gives a weight that
\* is not a positive number raises an error: no configuration object is
\* returned for the list, and so none is validated and no pool is built from
\* it.
C28_WeightValidation ==
    \A t \in Threads :
        (IsLoad(t) /\ \E i \in DOMAIN loc[t].raw : BadWeight(loc[t].raw[i])) =>
            /\ ~loc[t].loaded
            /\ loc[t].exc \in {"ValueError", "TypeError"}
            /\ ~loc[t].validated
            /\ ~loc[t].built

\* C29: the pool is never empty, and neither is a pool that was constructed
\* nor a configuration that was validated: validate on an empty api_keys
\* list raises ValueError, and so does ApiKeyManager on an empty list.
C29_NonEmpty ==
    /\ Len(api_keys) >= 1
    /\ \A t \in Threads : IsLoad(t) =>
        /\ loc[t].built => Len(loc[t].manager.api_keys) >= 1
        /\ loc[t].validated => Len(loc[t].config.api_keys) >= 1
        /\ (loc[t].loaded /\ loc[t].config.api_keys = <<>>) =>
               /\ pc[t] \in {"Loaded", "Invalid"}
               /\ pc[t] = "Invalid" => loc[t].exc = "ValueError"
               /\ loc[t].manager = NoManager

\* The configuration of an empty api_keys list was loaded and its validation
\* has failed.
C29_Witness ==
    \E t \in Threads :
        /\ IsLoad(t)
        /\ loc[t].raw = <<>>
        /\ loc[t].loaded
        /\ pc[t] = "Invalid"
        /\ loc[t].message = "At least one API key is required in api_keys"

\* The credentials of a list that carry the name.
Named(keys, name) == { i \in DOMAIN keys : keys[i].name = name }

AllNames ==
    RawNames \cup { AutoName(i) : i \in 0..(MaxEntries - 1) }

\* C30: a loaded configuration in which two credentials carry the same name
\* is not validated; in a validated configuration, and in a pool constructed
\* from one, the names are pairwise distinct, and get_key_by_name returns
\* the one credential of the name, or none.
C30_NameUniqueness ==
    \A t \in Threads : IsLoad(t) =>
        LET keys == loc[t].config.api_keys
        IN  /\ (loc[t].loaded /\ \E name \in AllNames \ {""} :
                    Cardinality(Named(keys, name)) > 1) => ~loc[t].validated
            /\ loc[t].validated =>
                   /\ \A i \in DOMAIN keys : \A j \in DOMAIN keys :
                          keys[i].name = keys[j].name => i = j
                   /\ \A name \in AllNames :
                          IF Named(keys, name) = {} 
                          THEN GetKeyByName(keys, 1, name) = NoneFound
                          ELSE Named(keys, name) = { CHOOSE i \in DOMAIN keys :
                                   keys[i] = GetKeyByName(keys, 1, name) }
                   /\ loc[t].built =>
                          \A i \in DOMAIN keys : \A j \in DOMAIN keys :
                              loc[t].manager.api_keys[i].name
                                  = loc[t].manager.api_keys[j].name => i = j

\* A configuration of two credentials named "a" was loaded and its
\* validation has failed on the duplicate.
C30_Witness ==
    \E t \in Threads :
        /\ IsLoad(t)
        /\ loc[t].loaded
        /\ Len(loc[t].config.api_keys) = 2
        /\ loc[t].config.api_keys[1].name = "a"
        /\ loc[t].config.api_keys[2].name = "a"
        /\ pc[t] = "Invalid"
        /\ loc[t].message = "Duplicate API key names found"

\* The name "key_<n>" of the 1-based position n of the list.
PositionName(n) == <<"key_1", "key_2", "key_3", "key_4">>[n]

\* The credential the entry at the 1-based position n stands for.
Resolved(entry, n) ==
    IF entry.form = "string"
    THEN [key |-> entry.key, weight |-> Num(1), name |-> PositionName(n)]
    ELSE [key    |-> entry.fields.key,
          weight |-> IF "weight" \in DOMAIN entry.fields
                     THEN entry.fields.weight ELSE Num(1),
          name   |-> IF "name" \in DOMAIN entry.fields /\ entry.fields.name # ""
                     THEN entry.fields.name ELSE PositionName(n)]

OtherType(entry) == entry.form = "other"

EmptySecret(entry) ==
    \/ entry.form = "string" /\ entry.key = ""
    \/ entry.form = "object" /\ entry.fields.key = ""

\* The list was resolved: one credential per entry, in the order of the list.
ResolvedInOrder(t) ==
    /\ loc[t].loaded
    /\ Len(loc[t].config.api_keys) = Len(loc[t].raw)
    /\ \A n \in DOMAIN loc[t].raw :
           loc[t].config.api_keys[n] = Resolved(loc[t].raw[n], n)

IsStart(t) == loc[t].op = "start"

NonPositiveWeight(entry) ==
    /\ entry.form = "object"
    /\ "weight" \in DOMAIN entry.fields
    /\ entry.fields.weight.type = "number"
    /\ entry.fields.weight.value <= 0

GivenName(entry) ==
    IF entry.form = "object" /\ "name" \in DOMAIN entry.fields
    THEN entry.fields.name ELSE ""

\* The credential configuration is invalid: the list is empty, an entry
\* gives a non-positive weight, or two entries give the same name.
InvalidCredentials(raw) ==
    \/ raw = <<>>
    \/ \E n \in DOMAIN raw : NonPositiveWeight(raw[n])
    \/ \E m \in DOMAIN raw : \E n \in DOMAIN raw :
           m # n /\ GivenName(raw[m]) # "" /\ GivenName(raw[m]) = GivenName(raw[n])

\* C32: a start-up whose credential configuration is invalid (empty list,
\* non-positive weight, duplicate names) never registers the routes and
\* never serves a request.
C32_FatalConfigErrors ==
    \A t \in Threads :
        (IsStart(t) /\ InvalidCredentials(loc[t].raw)) =>
            pc[t] \notin {"RoutesRegistered", "Serving"}

IsHttp(t) == loc[t].op = "http"

\* The text of the fields of a response body.
BodyTexts(body) == { body.kind, body.type, body.code, body.message }

\* C33: a request whose handler raised an exception that is not an HTTP
\* exception is answered by exactly one response, of status 500, whose body
\* is the envelope {message, type, code} with the fixed message and without
\* the detail of the exception; an HTTP exception that the handler raised
\* is the response, with its own status; nothing is sent before the chain
\* is left.
C33_UnhandledErrorEnvelope ==
    \A t \in Threads : IsHttp(t) =>
        /\ Len(loc[t].sent) = (IF pc[t] = "Responded" THEN 1 ELSE 0)
        /\ (pc[t] = "Responded" /\ loc[t].outcome.exc = "Exception") =>
               LET body == loc[t].sent[1]
               IN  /\ body.status = 500
                   /\ body.kind = "envelope"
                   /\ {"message", "type", "code"} \subseteq DOMAIN body
                   /\ body.message = "Internal server error"
                   /\ body.type = "internal_error"
                   /\ body.code = "internal_error"
                   /\ loc[t].outcome.detail \notin BodyTexts(body)
        /\ (pc[t] = "Responded" /\ loc[t].outcome.exc = "HTTPException") =>
               loc[t].sent[1] =
                   [kind |-> "http_exception", status |-> loc[t].outcome.status]

\* A handler raised an exception with the backend's payload as its text and
\* the request was answered, while another handler raised an HTTP exception
\* of status 404 that was answered as it is.
C33_Witness ==
    \E t \in Threads : \E u \in Threads :
        /\ IsHttp(t) /\ pc[t] = "Responded"
        /\ loc[t].outcome.exc = "Exception"
        /\ loc[t].outcome.detail = "backend-payload"
        /\ loc[t].sent[1].status = 500
        /\ IsHttp(u) /\ pc[u] = "Responded"
        /\ loc[u].outcome.exc = "HTTPException"
        /\ loc[u].sent[1].status = 404

\* The entries that the logging middleware wrote for the request.
LoggedBy(t, middleware) ==
    SelectSeq(loc[t].log, LAMBDA entry : entry.by = middleware)

CarriesCors(headers) ==
    /\ {"Access-Control-Allow-Origin", "Access-Control-Allow-Methods",
         "Access-Control-Allow-Headers"} \subseteq DOMAIN headers
    /\ headers["Access-Control-Allow-Origin"] = "*"

\* C38: every response that the application sends, the 500 envelope of an
\* unhandled exception included, carries the three CORS headers, and the
\* logging middleware has logged its request once.
C38_CorsOnEveryResponse ==
    \A t \in Threads : (IsHttp(t) /\ pc[t] = "Responded") =>
        /\ CarriesCors(loc[t].sent_headers[1])
        /\ Len(LoggedBy(t, "logging_middleware")) = 1

Lookups == {"get_key_by_name", "get_all_keys", "get_stats"}

\* The cursors of the tiers other than w are those of before.
OnlyTierMoved(w) ==
    /\ DOMAIN weight_group_indices' = DOMAIN weight_group_indices
    /\ \A x \in DOMAIN weight_group_indices :
           x # w => weight_group_indices'[x] = weight_group_indices[x]

\* C34: the frame of each operation, by the operation that the step
\* completes: round robin leaves all but the global cursor; on a positive
\* total weight the weighted round robin leaves all but the cursor of the
\* tier it selected and the weighted random selection leaves the whole
\* pool; get_key_by_name, get_all_keys and get_stats leave the whole pool;
\* no selection changes the credentials, the tiers or the total weight.
C34_Frame ==
    [][ /\ last'.op = "round_robin" =>
               UNCHANGED <<api_keys, total_weight, weight_groups,
                           weight_group_indices, lock>>
        /\ (last'.op = "weighted_round_robin" /\ total_weight > 0) =>
               /\ UNCHANGED <<api_keys, total_weight, weight_groups,
                              current_index, lock>>
               /\ OnlyTierMoved(last'.tier)
        /\ (last'.op = "weighted" /\ total_weight > 0) =>
               UNCHANGED <<poolVars, lock>>
        /\ last'.op \in Lookups => UNCHANGED <<poolVars, lock>>
        /\ last'.op \in Selections =>
               UNCHANGED <<api_keys, weight_groups, total_weight>>
      ]_vars

\* The weighted round robin has selected from a tier of two credentials,
\* whose cursor is now 1, in a pool with a second tier and the global
\* cursor moved by an earlier round robin.
C34_Witness ==
    /\ last.op = "weighted_round_robin"
    /\ total_weight > 0
    /\ Cardinality(DOMAIN weight_groups) = 2
    /\ Len(weight_groups[last.tier]) = 2
    /\ weight_group_indices[last.tier] = 1
    /\ current_index = 1

CallerListOps == {"caller_append", "caller_pop", "caller_reverse"}

\* The tiers and the total weight are those of the credential sequence.
ConsistentPool ==
    /\ total_weight = SumWeights(api_keys)
    /\ DOMAIN weight_groups = WeightsIn(api_keys)
    /\ \A w \in DOMAIN weight_groups : weight_groups[w] = Tier(api_keys, w)
    /\ DOMAIN weight_group_indices = DOMAIN weight_groups

\* C35: what a caller does to its list (append, pop, reverse) after it has
\* passed the list to the constructor or to update_keys leaves the pool as
\* it is; the constructor and update_keys make the credential sequence of
\* the pool the items of the list passed; and the sequence is at every
\* moment the one that the tiers and the total weight were computed from.
C35_InputIsolation ==
    /\ [](\A t \in Callers : loc[t].op = "lists" => ConsistentPool)
    /\ [][ /\ last'.op \in CallerListOps => UNCHANGED poolVars
           /\ \A t \in Callers :
                  (last'.op \in {"init", "update_keys"} /\ ~last'.err) =>
                      api_keys' = loc[t].keys
         ]_vars

\* The caller has passed a list of two credentials to update_keys and then
\* changed its list twice: the pool has the two credentials, the list has not.
C35_Witness ==
    \E t \in Callers :
        /\ loc[t].op = "lists"
        /\ loc[t].passed
        /\ loc[t].n = 2
        /\ last.op \in CallerListOps
        /\ Len(api_keys) = 2
        /\ loc[t].keys # api_keys
        /\ Len(loc[t].keys) <= 1

\* The step is a call of query or get_models by the task.
CallsClient(t) ==
    /\ IsClient(t)
    /\ pc[t] \in {"Constructed", "Entered", "Exited"}
    /\ pc'[t] \in {"Raised", "InFlight"}

\* C37: a request goes out only from a client whose context was entered
\* and not exited; a call before the context is entered or after it has
\* been exited raises the RuntimeError "Session not initialized" and sends
\* nothing.  (Of the clients whose configuration has the attribute api_key.)
C37_SessionLifecycle ==
    [][ \A t \in Threads :
            (CallsClient(t) /\ HasAttr(loc[t].config, "api_key")) =>
                IF pc[t] = "Entered"
                THEN Len(loc'[t].sent) = Len(loc[t].sent) + 1
                ELSE /\ loc'[t].sent = loc[t].sent
                     /\ pc'[t] = "Raised"
                     /\ loc'[t].raised = "RuntimeError"
                     /\ loc'[t].message = <<"Session not initialized">>
      ]_vars

\* The names that the entries of the list give are pairwise distinct.
DistinctGivenNames(raw) ==
    \A m \in DOMAIN raw : \A n \in DOMAIN raw :
        (m # n /\ GivenName(raw[m]) # "") => GivenName(raw[m]) # GivenName(raw[n])

\* C36: the configuration loaded from a list whose given names are pairwise
\* distinct has pairwise distinct names, generated ones included, and its
\* validation does not fail on a duplicate name.
C36_AutoNamesUnique ==
    \A t \in Threads :
        (IsLoad(t) /\ loc[t].loaded /\ DistinctGivenNames(loc[t].raw)) =>
            /\ ~HasDuplicates(GivenNames(loc[t].config.api_keys))
            /\ loc[t].message # "Duplicate API key names found"

====
